---- MODULE Spec2Model ----
(***************************************************************************)
(* State-machine model of the sync package: Mutex, RWMutex, WaitGroup,     *)
(* Once, Pool and Map.  For Mutex, RWMutex, WaitGroup and Once every       *)
(* atomic memory operation of the source is one step of the task that      *)
(* executes it, and the locals of a task live in loc[t].  Map and Pool are *)
(* used by a single task, and each of their operations is one step.        *)
(***************************************************************************)
EXTENDS Integers, Sequences, FiniteSets, TLC

(***************************************************************************)
(* Bounds                                                                  *)
(***************************************************************************)
NMutex == 2         \* tasks contending for the Mutex
MaxLocks == 4       \* Lock calls the tasks make in total
MaxSpin == 1        \* iterations for which runtime_canSpin may answer true

NRW == 3            \* tasks using the RWMutex
MaxRWOps == 4       \* RLock and Lock calls the tasks make in total

NWG == 3            \* tasks using the WaitGroup
MaxWGOps == 4       \* Add and Wait calls the tasks make in total
MaxDelta == 2       \* largest delta passed to Add

NOnce == 2          \* tasks calling Once.Do
MaxDoCalls == 4     \* Do calls the tasks make in total

NKeys == 2          \* keys stored in the Map
NVals == 2          \* values stored in the Map

MaxPoolOps == 5     \* Put and Get calls the task makes in total
NPools == 1         \* Pools in use
NShards == 2        \* GOMAXPROCS: the shards of a Pool
NObjs == 3          \* objects the task puts into the Pools

NPoolTasks == 2     \* tasks using the Pools concurrently
MaxPoolCalls == 4   \* Put and Get calls those tasks make in total

NMapTasks == 3      \* tasks using the Map concurrently
MaxMapCalls == 5    \* Store, Load and Range calls those tasks make in total
NMapWriters == 2    \* tasks that also call LoadOrStore and Delete

NCond == 3          \* tasks using the Cond
MaxCondOps == 4     \* Wait, Signal and Broadcast calls the tasks make in total

MutexTasks == 1..NMutex
RWTasks == 1..NRW
WGTasks == 1..NWG
OnceTasks == 1..NOnce
CondTasks == 1..NCond
MapTasks == 1..NMapTasks
PoolTasks == 1..NPoolTasks
\* The tasks that use the WaitGroup while the Mutex tasks use the Mutex
WGOverflowTasks == (NMutex + 1)..(NMutex + 2)
Tasks == MutexTasks \cup RWTasks \cup WGTasks \cup OnceTasks \cup CondTasks \cup MapTasks
            \cup PoolTasks \cup WGOverflowTasks

(***************************************************************************)
(* Program constants                                                       *)
(***************************************************************************)
mutexLocked == 1
mutexWoken == 2
mutexStarving == 4
mutexWaiterShift == 3
rwmutexMaxReaders == 1073741824

VARIABLES
    pc,         \* pc[t]: position of task t in the code
    loc,        \* loc[t]: the locals of task t
    state,      \* Mutex.state
    sem,        \* the semaphores: sem[s] = [count, q]
    fatal,      \* "" or the message of the throw/panic that ended the process
    counter,    \* the shared counter the Mutex protects
    calls,      \* number of calls the tasks have made
    readerCount,    \* RWMutex.readerCount
    readerWait,     \* RWMutex.readerWait
    wg,             \* WaitGroup state: wg.v the counter, wg.w the waiter count
    done,           \* Once.done
    ran,            \* ran[t]: how often the function task t passed to Do was started
    finished,       \* finished[t]: how often that function has returned
    syncMap,        \* the Map: read, dirty, misses and the entries' p fields
    ref,            \* the plain key/value map the Map is compared with
    mres,           \* the last Map operation and what it returned
    pools,          \* pools[p]: local, localSize, victim, victimSize of Pool p
    allPools,       \* the Pools with a primary cache
    oldPools,       \* the Pools that may have a victim cache
    owned,          \* the objects the task holds, the others are in a Pool or dropped
    age,            \* age[x]: collection cycles since x was Put, 0 while the task holds x
    lastPut,        \* the latest Put and the cycles since, while no Put or Get followed
    pres,           \* the last Pool operation, what it returned, and for a Get lastPut before it
    notify,         \* Cond.notify: the tickets given out and notified, and the parked tasks
    L,              \* Cond.L: the task that holds the Locker, 0 if none
    mu,             \* Map.mu: the task that holds it, 0 if none
    allPoolsMu      \* allPoolsMu: the task that holds it, 0 if none

rwVars == <<readerCount, readerWait>>
onceVars == <<done, ran, finished>>
mapVars == <<syncMap, ref, mres>>
poolVars == <<pools, allPools, oldPools, owned, age, lastPut, pres>>
condVars == <<notify, L>>
exceptMutex == <<condVars, mu, allPoolsMu, poolVars, rwVars, wg, onceVars, mapVars>>
exceptRW == <<condVars, mu, allPoolsMu, poolVars, counter, wg, onceVars, mapVars>>
exceptWG == <<condVars, mu, allPoolsMu, poolVars, counter, state, rwVars, onceVars, mapVars>>
exceptOnce == <<condVars, mu, allPoolsMu, poolVars, counter, rwVars, wg, mapVars>>
exceptMap == <<condVars, mu, allPoolsMu, pc, loc, state, sem, counter, calls, rwVars, wg, onceVars, poolVars>>
exceptCond == <<mu, allPoolsMu, state, sem, counter, rwVars, wg, onceVars, mapVars, poolVars>>
exceptMapTasks == <<allPoolsMu, state, sem, counter, rwVars, wg, onceVars, mres, poolVars, condVars>>
exceptPoolTasks == <<state, sem, fatal, counter, rwVars, wg, onceVars, mapVars, condVars,
                     mu, age, lastPut, pres>>
exceptPool == <<condVars, mu, allPoolsMu, pc, loc, state, sem, fatal, counter, rwVars, wg, onceVars, mapVars>>
vars == <<pc, loc, state, sem, fatal, counter, calls, rwVars, wg, onceVars, mapVars,
          poolVars, condVars, mu, allPoolsMu>>

(***************************************************************************)
(* Bit operations on the packed Mutex state                                *)
(***************************************************************************)
Pow2(n) == 2 ^ n
Bit(x, b) == (x \div b) % 2 = 1
Or(x, b) == IF Bit(x, b) THEN x ELSE x + b
AndNot(x, b) == IF Bit(x, b) THEN x - b ELSE x
Shr(x, n) == x \div Pow2(n)
OneWaiter == Pow2(mutexWaiterShift)

\* The largest int32, and a + b in 32-bit two's complement: past MaxInt32
\* the sum continues from the smallest int32, and below the smallest int32
\* from MaxInt32.  A uint32 is kept as the int32 with the same bits, so that
\* -1 stands for 2^32 - 1.
MaxInt32 == 2147483647
AddInt32(a, b) ==
    IF b > 0 /\ a > MaxInt32 - b
    THEN (a - MaxInt32 - 1) + (b - MaxInt32 - 1)
    ELSE IF b < 0 /\ a < (-MaxInt32 - 1) - b
    THEN (a + MaxInt32 + 1) + (b + MaxInt32 + 1)
    ELSE a + b

\* The sum of f over the set S.
RECURSIVE SumOver(_, _)
SumOver(f, S) ==
    IF S = {} THEN 0
    ELSE LET x == CHOOSE y \in S : TRUE IN f[x] + SumOver(f, S \ {x})

Semaphores == {"sema", "writerSem", "readerSem", "wgSem"}
NoSem == [count |-> 0, q |-> <<>>]

(***************************************************************************)
(* Map data: keys, values, entries and Go maps                             *)
(***************************************************************************)
Keys == 1..NKeys
Vals == 1..NVals
Entries == 1..(2 * NKeys)
NoEntry == 0
PNil == 0
PExpunged == -1
PFree == -2

NilMap == [isnil |-> TRUE, m |-> [k \in Keys |-> NoEntry]]
EmptyMap == [isnil |-> FALSE, m |-> [k \in Keys |-> NoEntry]]
MapLen(mp) == Cardinality({k \in Keys : mp.m[k] # NoEntry})

\* The zero Map
ZeroMap ==
    [read |-> [m |-> NilMap, amended |-> FALSE],
     dirty |-> NilMap,
     misses |-> 0,
     ep |-> [e \in Entries |-> PFree],
     panic |-> FALSE]

(***************************************************************************)
(* Locals of a task.  slept records that the task has parked on a          *)
(* semaphore during its current call, arrivedStarving that it called Lock  *)
(* while the starving bit was set, blockedBy the writer that was announced *)
(* when the task called RLock and has not called Unlock since (0 if none), *)
(* ticket the t of Cond.Wait, signalled where the task was at the first    *)
(* Signal or Broadcast called since it took its ticket ("" if none), read  *)
(* the read.m a Range iterates over, visited and seen the keys it has      *)
(* been through and those it has called f for, must the keys whose Store   *)
(* had returned when the Range was called, reused that an Add started a    *)
(* new round while the task was on its way out of Wait.                    *)
(***************************************************************************)
NoLocals ==
    [old |-> 0, new |-> 0, awoke |-> FALSE, starving |-> FALSE, iter |-> 0,
     waitStartTime |-> 0, ret |-> "", lifo |-> FALSE, s |-> "", wake |-> "",
     tmp |-> 0, r |-> 0, i |-> 0, v |-> 0, w |-> 0, zero |-> FALSE, slept |-> FALSE, arrivedStarving |-> FALSE,
     blockedBy |-> 0, ticket |-> 0, signalled |-> "",
     reused |-> FALSE, depth |-> 0, op |-> "", p |-> 0, pid |-> 0, x |-> 0, size |-> 0,
     key |-> 0, value |-> 0, e |-> 0, read |-> NilMap, visited |-> {}, seen |-> {}, must |-> {},
     actual |-> 0, loaded |-> FALSE, expect |-> -1]

(***************************************************************************)
(* Pool data: a per-shard array is [isnil, a], a[s] the poolLocal of shard *)
(* s with its private slot (NoObj for nil) and its shared chain, head      *)
(* first.                                                                  *)
(***************************************************************************)
Pools == 1..NPools
Shards == 0..(NShards - 1)
Objs == 1..NObjs
NoObj == 0

ZeroLocal == [private |-> NoObj, shared |-> <<>>]
NilArray == [isnil |-> TRUE, a |-> [s \in Shards |-> ZeroLocal]]
NewArray == [isnil |-> FALSE, a |-> [s \in Shards |-> ZeroLocal]]
ZeroPool ==
    [local |-> NilArray, localSize |-> 0, victim |-> NilArray, victimSize |-> 0,
     New |-> FALSE]

\* What p.New() returns: an object that is in no Pool
Fresh == NObjs + 1
NoPut == [p |-> 0, pid |-> 0, x |-> NoObj, slot |-> "", cycles |-> 0]

(***************************************************************************)
(* The blocking primitive (runtime_Semacquire / runtime_Semrelease)        *)
(***************************************************************************)
\* Semacquire: wait until *s > 0 and then atomically decrement it.  A task
\* that cannot decrement queues (at the front if lifo) and parks.
Semacquire(t, s, lifo, to) ==
    IF sem[s].count > 0
    THEN /\ sem' = [sem EXCEPT ![s].count = @ - 1]
         /\ pc' = [pc EXCEPT ![t] = to]
         /\ loc' = loc
    ELSE /\ sem' = [sem EXCEPT ![s].q = IF lifo THEN <<t>> \o @ ELSE Append(@, t)]
         /\ pc' = [pc EXCEPT ![t] = "parked"]
         /\ loc' = [loc EXCEPT ![t].wake = to, ![t].lifo = lifo, ![t].s = s,
                               ![t].slept = TRUE]

\* A notified waiter retries the decrement and parks again when it loses.
SemWake(t) ==
    /\ fatal = ""
    /\ pc[t] = "notified"
    /\ LET s == loc[t].s IN
       IF sem[s].count > 0
       THEN /\ sem' = [sem EXCEPT ![s].count = @ - 1]
            /\ pc' = [pc EXCEPT ![t] = loc[t].wake]
            /\ loc' = [loc EXCEPT ![t].wake = "", ![t].s = "", ![t].lifo = FALSE]
       ELSE /\ sem' = [sem EXCEPT ![s].q = IF loc[t].lifo THEN <<t>> \o @ ELSE Append(@, t)]
            /\ pc' = [pc EXCEPT ![t] = "parked"]
            /\ loc' = loc

\* Semrelease: atomically increment *s and notify the first waiter; with
\* handoff the count is passed directly to that waiter.  The releasing task
\* t continues at `to' with locals lt.
Semrelease(t, s, handoff, to, lt) ==
    IF sem[s].q = <<>>
    THEN /\ sem' = [sem EXCEPT ![s].count = @ + 1]
         /\ pc' = [pc EXCEPT ![t] = to]
         /\ loc' = [loc EXCEPT ![t] = lt]
    ELSE LET w == Head(sem[s].q) IN
         IF handoff
         THEN /\ sem' = [sem EXCEPT ![s].q = Tail(@)]
              /\ pc' = [pc EXCEPT ![t] = to, ![w] = loc[w].wake]
              /\ loc' = [loc EXCEPT ![t] = lt, ![w].wake = "", ![w].s = "",
                                    ![w].lifo = FALSE]
         ELSE /\ sem' = [sem EXCEPT ![s].count = @ + 1, ![s].q = Tail(@)]
              /\ pc' = [pc EXCEPT ![t] = to, ![w] = "notified"]
              /\ loc' = [loc EXCEPT ![t] = lt]

(***************************************************************************)
(* Mutex                                                                   *)
(***************************************************************************)
Throw(t, msg) ==
    /\ fatal' = msg
    /\ pc' = [pc EXCEPT ![t] = "fatal"]

\* Lock: the fast path, and the entry of lockSlow with its locals.
Lock(t, from, to) ==
    /\ fatal = ""
    /\ pc[t] = from
    /\ IF state = 0
       THEN /\ state' = mutexLocked
            /\ pc' = [pc EXCEPT ![t] = to]
            /\ loc' = loc
       ELSE /\ state' = state
            /\ pc' = [pc EXCEPT ![t] = "readState"]
            /\ loc' = [loc EXCEPT ![t] =
                        [NoLocals EXCEPT !.ret = to,
                                         !.arrivedStarving = Bit(state, mutexStarving)]]
    /\ UNCHANGED <<sem, fatal>>

\* old = m.state
ReadState(t) ==
    /\ fatal = ""
    /\ pc[t] = "readState"
    /\ loc' = [loc EXCEPT ![t].old = state]
    /\ pc' = [pc EXCEPT ![t] = "loop"]
    /\ UNCHANGED <<state, sem, fatal>>

\* runtime_canSpin may answer true for the first MaxSpin iterations only.
CanSpin(iter) == iter < MaxSpin

\* The spinning branch of lockSlow.
Spin(t) ==
    /\ fatal = ""
    /\ pc[t] = "loop"
    /\ LET l == loc[t] IN
       /\ Bit(l.old, mutexLocked) /\ ~Bit(l.old, mutexStarving)
       /\ CanSpin(l.iter)
       /\ IF /\ ~l.awoke
             /\ ~Bit(l.old, mutexWoken)
             /\ Shr(l.old, mutexWaiterShift) # 0
             /\ state = l.old
          THEN /\ state' = Or(l.old, mutexWoken)
               /\ loc' = [loc EXCEPT ![t].awoke = TRUE, ![t].iter = @ + 1]
          ELSE /\ state' = state
               /\ loc' = [loc EXCEPT ![t].iter = @ + 1]
    /\ pc' = [pc EXCEPT ![t] = "readState"]
    /\ UNCHANGED <<sem, fatal>>

\* The state lockSlow tries to install, before the woken bit is reset.
NewState(old, starving) ==
    LET n1 == IF ~Bit(old, mutexStarving) THEN Or(old, mutexLocked) ELSE old
        n2 == IF Bit(old, mutexLocked) \/ Bit(old, mutexStarving)
              THEN AddInt32(n1, OneWaiter) ELSE n1
    IN  IF starving /\ Bit(old, mutexLocked) THEN Or(n2, mutexStarving) ELSE n2

\* A CAS that takes the lock although the mutex is in starving mode.
LockedByCASNoStarving(old) == ~Bit(old, mutexLocked)

\* old&(mutexLocked|mutexStarving) == 0: the CAS locked the mutex.
LockedByCAS(old) == ~Bit(old, mutexLocked) /\ ~Bit(old, mutexStarving)

\* The non-spinning branch of lockSlow up to the semaphore.
TryLock(t) ==
    /\ fatal = ""
    /\ pc[t] = "loop"
    /\ LET l == loc[t]
           n == NewState(l.old, l.starving)
       IN
       IF l.awoke /\ ~Bit(n, mutexWoken)
       THEN /\ Throw(t, "sync: inconsistent mutex state")
            /\ UNCHANGED <<state, loc>>
       ELSE LET new == IF l.awoke THEN AndNot(n, mutexWoken) ELSE n IN
            /\ fatal' = fatal
            /\ IF state = l.old
               THEN /\ state' = new
                    /\ IF LockedByCAS(l.old)
                       THEN /\ pc' = [pc EXCEPT ![t] = l.ret]
                            /\ loc' = [loc EXCEPT ![t] = NoLocals]
                       ELSE /\ pc' = [pc EXCEPT ![t] = "semacquire"]
                            /\ loc' = [loc EXCEPT
                                   ![t].lifo = (l.waitStartTime # 0),
                                   ![t].waitStartTime = 1]
               ELSE /\ state' = state
                    /\ pc' = [pc EXCEPT ![t] = "readState"]
                    /\ loc' = loc
    /\ sem' = sem

\* runtime_SemacquireMutex(&m.sema, queueLifo, 1)
SemacquireMutex(t) ==
    /\ fatal = ""
    /\ pc[t] = "semacquire"
    /\ Semacquire(t, "sema", loc[t].lifo, "afterWake")
    /\ UNCHANGED <<state, fatal>>

\* After the semaphore: the starvation decision and the re-read of the state.
AfterWake(t) ==
    /\ fatal = ""
    /\ pc[t] = "afterWake"
    /\ \E late \in BOOLEAN :
         LET starving == loc[t].starving \/ late
             old == state
         IN
         IF Bit(old, mutexStarving)
         THEN IF \/ Bit(old, mutexLocked)
                 \/ Bit(old, mutexWoken)
                 \/ Shr(old, mutexWaiterShift) = 0
              THEN /\ Throw(t, "sync: inconsistent mutex state")
                   /\ loc' = loc
              ELSE /\ pc' = [pc EXCEPT ![t] = "handoff"]
                   /\ loc' = [loc EXCEPT ![t].starving = starving, ![t].old = old]
                   /\ fatal' = fatal
         ELSE /\ pc' = [pc EXCEPT ![t] = "loop"]
              /\ loc' = [loc EXCEPT ![t].starving = starving, ![t].old = old,
                                    ![t].awoke = TRUE, ![t].iter = 0]
              /\ fatal' = fatal
    /\ UNCHANGED <<state, sem>>

\* A handed-off waiter that never ends starvation mode.
HandoffDeltaKeepingStarving(old, starving) == mutexLocked - OneWaiter

\* The correction a handed-off waiter adds to the state.
HandoffDelta(old, starving) ==
    LET delta == mutexLocked - OneWaiter IN
    IF ~starving \/ Shr(old, mutexWaiterShift) = 1
    THEN delta - mutexStarving
    ELSE delta

\* atomic.AddInt32(&m.state, delta) of the handed-off waiter.
Handoff(t) ==
    /\ fatal = ""
    /\ pc[t] = "handoff"
    /\ state' = AddInt32(state, HandoffDelta(loc[t].old, loc[t].starving))
    /\ pc' = [pc EXCEPT ![t] = loc[t].ret]
    /\ loc' = [loc EXCEPT ![t] = NoLocals]
    /\ UNCHANGED <<sem, fatal>>

\* An unlockSlow that throws only when the whole state was zero.
WasZero(new) == new + mutexLocked = 0

\* unlockSlow: (new+mutexLocked)&mutexLocked == 0, the mutex was not locked
WasUnlocked(new) == ~Bit(new + mutexLocked, mutexLocked)

\* Unlock: drop the locked bit, and the entry of unlockSlow.
Unlock(t, from, to) ==
    /\ fatal = ""
    /\ pc[t] = from
    /\ LET new == AddInt32(state, -mutexLocked) IN
       /\ state' = new
       /\ IF new = 0
          THEN /\ pc' = [pc EXCEPT ![t] = to]
               /\ UNCHANGED <<loc, fatal>>
          ELSE IF WasUnlocked(new)
          THEN /\ Throw(t, "sync: unlock of unlocked mutex")
               /\ loc' = loc
          ELSE /\ pc' = [pc EXCEPT ![t] = IF Bit(new, mutexStarving)
                                         THEN "unlockStarving" ELSE "unlockLoop"]
               /\ loc' = [loc EXCEPT ![t] = [NoLocals EXCEPT !.old = new, !.ret = to]]
               /\ fatal' = fatal
    /\ sem' = sem

\* An unlockSlow that never finds a waiter to wake.
NoWakeEver(old) == TRUE

\* Nobody to wake: no waiters, or someone is already awake or holds the lock.
NoWake(old) ==
    \/ Shr(old, mutexWaiterShift) = 0
    \/ Bit(old, mutexLocked)
    \/ Bit(old, mutexWoken)
    \/ Bit(old, mutexStarving)

\* An unlockSlow that wakes a waiter without setting the woken bit.
GrabWakeNoWoken(old) == AddInt32(old, -OneWaiter)

\* unlockSlow: new = (old - 1<<mutexWaiterShift) | mutexWoken
GrabWake(old) == Or(AddInt32(old, -OneWaiter), mutexWoken)

\* One iteration of the normal-mode loop of unlockSlow.
UnlockLoop(t) ==
    /\ fatal = ""
    /\ pc[t] = "unlockLoop"
    /\ LET l == loc[t] IN
       IF NoWake(l.old)
       THEN /\ pc' = [pc EXCEPT ![t] = l.ret]
            /\ loc' = [loc EXCEPT ![t] = NoLocals]
            /\ state' = state
       ELSE IF state = l.old
       THEN /\ state' = GrabWake(l.old)
            /\ pc' = [pc EXCEPT ![t] = "unlockWake"]
            /\ loc' = loc
       ELSE /\ state' = state
            /\ pc' = [pc EXCEPT ![t] = "unlockRead"]
            /\ loc' = loc
    /\ UNCHANGED <<sem, fatal>>

\* old = m.state in unlockSlow
UnlockRead(t) ==
    /\ fatal = ""
    /\ pc[t] = "unlockRead"
    /\ loc' = [loc EXCEPT ![t].old = state]
    /\ pc' = [pc EXCEPT ![t] = "unlockLoop"]
    /\ UNCHANGED <<state, sem, fatal>>

\* runtime_Semrelease(&m.sema, false, 1)
UnlockWake(t) ==
    /\ fatal = ""
    /\ pc[t] = "unlockWake"
    /\ Semrelease(t, "sema", FALSE, loc[t].ret, NoLocals)
    /\ UNCHANGED <<state, fatal>>

\* runtime_Semrelease(&m.sema, true, 1)
UnlockStarving(t) ==
    /\ fatal = ""
    /\ pc[t] = "unlockStarving"
    /\ Semrelease(t, "sema", TRUE, loc[t].ret, NoLocals)
    /\ UNCHANGED <<state, fatal>>

\* The steps inside Lock and Unlock that every user of a Mutex shares.
MutexStep(t) ==
    \/ ReadState(t)
    \/ Spin(t)
    \/ TryLock(t)
    \/ SemacquireMutex(t)
    \/ (SemWake(t) /\ UNCHANGED <<state, fatal>>)
    \/ AfterWake(t)
    \/ Handoff(t)
    \/ UnlockLoop(t)
    \/ UnlockRead(t)
    \/ UnlockWake(t)
    \/ UnlockStarving(t)

(***************************************************************************)
(* Mutex under contention: each task locks, increments the shared counter  *)
(* with a separate read and write, and unlocks.                            *)
(***************************************************************************)
MutexLock(t) ==
    /\ calls < MaxLocks
    /\ Lock(t, "idle", "held")
    /\ calls' = calls + 1
    /\ UNCHANGED <<counter, exceptMutex>>

CsRead(t) ==
    /\ fatal = ""
    /\ pc[t] = "held"
    /\ loc' = [loc EXCEPT ![t].tmp = counter]
    /\ pc' = [pc EXCEPT ![t] = "csWrite"]
    /\ UNCHANGED <<state, sem, fatal, counter, calls, exceptMutex>>

CsWrite(t) ==
    /\ fatal = ""
    /\ pc[t] = "csWrite"
    /\ counter' = loc[t].tmp + 1
    /\ calls' = calls
    /\ loc' = [loc EXCEPT ![t].tmp = 0]
    /\ pc' = [pc EXCEPT ![t] = "unlock"]
    /\ UNCHANGED <<state, sem, fatal, exceptMutex>>

MutexUnlock(t) ==
    /\ Unlock(t, "unlock", "idle")
    /\ UNCHANGED <<counter, calls, exceptMutex>>

MutexInner(t) ==
    /\ MutexStep(t)
    /\ UNCHANGED <<counter, calls, exceptMutex>>

Init ==
    /\ pc = [t \in Tasks |-> "idle"]
    /\ loc = [t \in Tasks |-> NoLocals]
    /\ state = 0
    /\ sem = [s \in Semaphores |-> NoSem]
    /\ fatal = ""
    /\ counter = 0
    /\ calls = 0
    /\ readerCount = 0
    /\ readerWait = 0
    /\ wg = [v |-> 0, w |-> 0]
    /\ done = 0
    /\ ran = [t \in Tasks |-> 0]
    /\ finished = [t \in Tasks |-> 0]
    /\ syncMap = ZeroMap
    /\ ref = [k \in Keys |-> 0]
    /\ mres = [op |-> "", key |-> 0, value |-> 0, ok |-> FALSE]
    /\ pools = [p \in Pools |-> ZeroPool]
    /\ allPools = <<>>
    /\ oldPools = <<>>
    /\ owned = Objs
    /\ age = [x \in Objs |-> 0]
    /\ lastPut = NoPut
    /\ pres = [op |-> "", p |-> 0, pid |-> 0, x |-> NoObj, put |-> NoPut, vslot |-> ""]
    /\ notify = [wait |-> 0, notify |-> 0, list |-> <<>>]
    /\ L = 0
    /\ mu = 0
    /\ allPoolsMu = 0

NextMutex ==
    \E t \in MutexTasks :
        \/ MutexLock(t)
        \/ MutexInner(t)
        \/ CsRead(t)
        \/ CsWrite(t)
        \/ MutexUnlock(t)

SpecMutex == Init /\ [][NextMutex]_vars

\* A task that does not hold the Mutex calls Unlock: a Mutex is not bound
\* to the task that locked it.
MutexStrayUnlock(t) ==
    /\ Unlock(t, "idle", "idle")
    /\ UNCHANGED <<counter, calls, exceptMutex>>

NextMutexMisuse ==
    \E t \in MutexTasks :
        \/ MutexLock(t)
        \/ MutexInner(t)
        \/ CsRead(t)
        \/ CsWrite(t)
        \/ MutexUnlock(t)
        \/ MutexStrayUnlock(t)

SpecMutexMisuse == Init /\ [][NextMutexMisuse]_vars

(***************************************************************************)
(* Mutex: properties                                                       *)
(***************************************************************************)
\* Task t is between the return of Lock and its call of Unlock.
InCS(t) == pc[t] \in {"held", "csWrite", "unlock"}

\* C1: at most one task at a time is between the return of Lock and its
\* Unlock, and whenever no task is inside Lock or Unlock the shared counter
\* equals the number of lock/increment/unlock pairs made.
MutexMutualExclusion ==
    /\ Cardinality({t \in MutexTasks : InCS(t)}) <= 1
    /\ (\A t \in MutexTasks : pc[t] = "idle") => counter = calls

\* A task holds the mutex in starving mode after two increments while another
\* task is parked.
MutexContended ==
    \E t, u \in MutexTasks :
        /\ InCS(t)
        /\ pc[u] = "parked"
        /\ Bit(state, mutexStarving)
        /\ counter >= 2

\* C10: while the starving bit is set a task that newly calls Lock only
\* registers as a waiter and parks, so a task that arrived in starving mode
\* takes ownership of the mutex only after it parked in the wait queue and
\* Unlock handed the mutex to it.
MutexStarvingHandoff ==
    \A t \in MutexTasks :
        (pc[t] = "handoff" /\ loc[t].arrivedStarving) => loc[t].slept

\* Fair scheduling: a task that can take a step inside Lock, inside its
\* critical section or inside Unlock eventually takes one.  Calling Lock is
\* up to the task.
FairMutex ==
    \A t \in MutexTasks :
        WF_vars(MutexInner(t) \/ CsRead(t) \/ CsWrite(t) \/ MutexUnlock(t))

FairSpecMutex == SpecMutex /\ FairMutex

\* Task t has called Lock and Lock has not returned.
InLock(t) ==
    /\ pc[t] \in {"readState", "loop", "semacquire", "parked", "notified",
                  "afterWake", "handoff"}
    /\ loc[t].ret = "held"

\* Task t is inside Unlock.
InUnlock(t) == pc[t] \in {"unlockLoop", "unlockRead", "unlockWake", "unlockStarving"}

\* The mutex is free, every Lock caller is parked and nothing will wake one.
LostWakeup ==
    /\ \E t \in MutexTasks : InLock(t)
    /\ \A t \in MutexTasks : InLock(t) => pc[t] = "parked"
    /\ \A t \in MutexTasks : ~InCS(t) /\ ~InUnlock(t)
    /\ sem["sema"].count = 0

\* C11: no state is reachable in which the mutex is free, every Lock caller
\* is parked and no release is pending; and under fair scheduling, whenever
\* a task is inside Lock some task eventually returns from Lock.
MutexProgress ==
    /\ []~LostWakeup
    /\ (\E t \in MutexTasks : InLock(t)) ~> (\E u \in MutexTasks : pc[u] = "held")

\* A task is parked while Unlock has cleared the locked bit and is about to
\* release the semaphore.
MutexWakePending ==
    \E t, u \in MutexTasks :
        /\ InLock(t) /\ pc[t] = "parked"
        /\ pc[u] = "unlockWake"
        /\ ~Bit(state, mutexLocked)

\* C19: an Unlock that is called while the locked bit is clear, whatever the
\* other bits of the state, ends in the fatal error "sync: unlock of
\* unlocked mutex" and does not return.
MutexUnlockOfUnlocked ==
    [][\A t \in MutexTasks :
          ((MutexUnlock(t) \/ MutexStrayUnlock(t)) /\ ~Bit(state, mutexLocked)) =>
              /\ fatal' = "sync: unlock of unlocked mutex"
              /\ pc'[t] = "fatal"]_vars

\* An Unlock has thrown in the handoff window of starvation mode: the
\* state it found had the starving bit and a waiter, and not the locked bit.
MutexUnlockInHandoffWindow ==
    /\ fatal = "sync: unlock of unlocked mutex"
    /\ Bit(state + mutexLocked, mutexStarving)
    /\ ~Bit(state + mutexLocked, mutexLocked)
    /\ Shr(state + mutexLocked, mutexWaiterShift) > 0

(***************************************************************************)
(* RWMutex.  rw.w is the Mutex above; every task may read-lock or          *)
(* write-lock, and unlocks what it locked.                                 *)
(***************************************************************************)
\* RLock: atomic.AddInt32(&rw.readerCount, 1)
\* A reader that never sees a pending writer.
NoWriterPending(rc) == FALSE

\* A reader that also waits when another reader holds the lock.
WriterOrReaderPending(rc) == rc < 0 \/ rc > 1

\* RLock: atomic.AddInt32(&rw.readerCount, 1) < 0, a writer is pending
WriterPending(rc) == rc < 0

\* The writer that has announced itself and has not called Unlock, 0 if none.
AnnouncedWriter ==
    LET W == {t \in RWTasks :
                \/ pc[t] \in {"waitReaders", "writerSem", "writing"}
                \/ pc[t] \in {"parked", "notified"} /\ loc[t].s = "writerSem"}
    IN  IF W = {} THEN 0 ELSE CHOOSE t \in W : TRUE

\* An RLock that does not count its reader.
ReaderEntersUncounted(rc) == rc

\* RLock: atomic.AddInt32(&rw.readerCount, 1)
ReaderEnters(rc) == rc + 1

RLock(t) ==
    /\ fatal = ""
    /\ pc[t] = "idle"
    /\ calls < MaxRWOps
    /\ calls' = calls + 1
    /\ readerCount' = ReaderEnters(readerCount)
    /\ pc' = [pc EXCEPT ![t] = IF WriterPending(readerCount') THEN "rlockSem" ELSE "reading"]
    /\ loc' = [loc EXCEPT ![t].blockedBy = AnnouncedWriter]
    /\ UNCHANGED <<state, sem, fatal, readerWait, exceptRW>>

\* RLock: a writer is pending, runtime_SemacquireMutex(&rw.readerSem, false, 0)
RLockSem(t) ==
    /\ fatal = ""
    /\ pc[t] = "rlockSem"
    /\ Semacquire(t, "readerSem", FALSE, "reading")
    /\ UNCHANGED <<state, fatal, calls, rwVars, exceptRW>>

\* r+1 == 0 || r+1 == -rwmutexMaxReaders
RUnlockOfUnlocked(r) == r + 1 = 0 \/ r + 1 = -rwmutexMaxReaders

\* RUnlock: atomic.AddInt32(&rw.readerCount, -1) and the check of rUnlockSlow
RUnlockFrom(t, from) ==
    /\ fatal = ""
    /\ pc[t] = from
    /\ LET r == readerCount - 1 IN
       /\ readerCount' = r
       /\ IF r >= 0
          THEN /\ pc' = [pc EXCEPT ![t] = "idle"]
               /\ fatal' = fatal
          ELSE IF RUnlockOfUnlocked(r)
          THEN Throw(t, "sync: RUnlock of unlocked RWMutex")
          ELSE /\ pc' = [pc EXCEPT ![t] = "rUnlockSlow"]
               /\ fatal' = fatal
    /\ loc' = [loc EXCEPT ![t].blockedBy = 0]
    /\ UNCHANGED <<state, sem, readerWait, exceptRW>>

\* RUnlock, called by a task that holds a read lock
RUnlock(t) ==
    /\ RUnlockFrom(t, "reading")
    /\ calls' = calls

\* A departing reader that unblocks the writer whatever readerWait says.
AnyReader(rw) == TRUE

\* rUnlockSlow: atomic.AddInt32(&rw.readerWait, -1) == 0, the last reader
LastReader(rw) == rw = 0

\* rUnlockSlow: atomic.AddInt32(&rw.readerWait, -1)
RUnlockSlow(t) ==
    /\ fatal = ""
    /\ pc[t] = "rUnlockSlow"
    /\ readerWait' = readerWait - 1
    /\ pc' = [pc EXCEPT ![t] = IF LastReader(readerWait') THEN "rUnlockRelease" ELSE "idle"]
    /\ UNCHANGED <<loc, state, sem, fatal, calls, readerCount, exceptRW>>

\* rUnlockSlow: the last reader unblocks the writer
RUnlockRelease(t) ==
    /\ fatal = ""
    /\ pc[t] = "rUnlockRelease"
    /\ Semrelease(t, "writerSem", FALSE, "idle", loc[t])
    /\ UNCHANGED <<state, fatal, calls, rwVars, exceptRW>>

\* Lock: rw.w.Lock()
RWLock(t) ==
    /\ calls < MaxRWOps
    /\ calls' = calls + 1
    /\ Lock(t, "idle", "announce")
    /\ UNCHANGED <<rwVars, exceptRW>>

\* The steps of rw.w.Lock() and rw.w.Unlock()
RWInner(t) ==
    /\ MutexStep(t)
    /\ UNCHANGED <<calls, rwVars, exceptRW>>

\* Lock: r := atomic.AddInt32(&rw.readerCount, -rwmutexMaxReaders) + rwmutexMaxReaders
Announce(t) ==
    /\ fatal = ""
    /\ pc[t] = "announce"
    /\ readerCount' = readerCount - rwmutexMaxReaders
    /\ LET r == readerCount' + rwmutexMaxReaders IN
       /\ loc' = [loc EXCEPT ![t].r = r]
       /\ pc' = [pc EXCEPT ![t] = IF r # 0 THEN "waitReaders" ELSE "writing"]
    /\ UNCHANGED <<state, sem, fatal, calls, readerWait, exceptRW>>

\* Lock: atomic.AddInt32(&rw.readerWait, r) != 0
WaitReaders(t) ==
    /\ fatal = ""
    /\ pc[t] = "waitReaders"
    /\ readerWait' = readerWait + loc[t].r
    /\ pc' = [pc EXCEPT ![t] = IF readerWait' # 0 THEN "writerSem" ELSE "writing"]
    /\ loc' = [loc EXCEPT ![t].r = 0]
    /\ UNCHANGED <<state, sem, fatal, calls, readerCount, exceptRW>>

\* Lock: runtime_SemacquireMutex(&rw.writerSem, false, 0)
WriterSem(t) ==
    /\ fatal = ""
    /\ pc[t] = "writerSem"
    /\ Semacquire(t, "writerSem", FALSE, "writing")
    /\ UNCHANGED <<state, fatal, calls, rwVars, exceptRW>>

\* Unlock: r := atomic.AddInt32(&rw.readerCount, rwmutexMaxReaders) and the
\* check for an Unlock of an unlocked RWMutex
RWUnlockFrom(t, from) ==
    /\ fatal = ""
    /\ pc[t] = from
    /\ LET r == readerCount + rwmutexMaxReaders IN
       /\ readerCount' = r
       /\ IF r >= rwmutexMaxReaders
          THEN /\ Throw(t, "sync: Unlock of unlocked RWMutex")
               /\ loc' = loc
          ELSE /\ loc' = [u \in Tasks |->
                          IF u = t THEN [loc[t] EXCEPT !.r = r, !.i = 0]
                          ELSE IF loc[u].blockedBy = t THEN [loc[u] EXCEPT !.blockedBy = 0]
                          ELSE loc[u]]
               /\ pc' = [pc EXCEPT ![t] = IF 0 < r THEN "releaseReaders" ELSE "unlockW"]
               /\ fatal' = fatal
    /\ UNCHANGED <<state, sem, readerWait, exceptRW>>

\* Unlock, called by the task that holds the write lock
RWUnlock(t) ==
    /\ RWUnlockFrom(t, "writing")
    /\ calls' = calls

\* Unlock: one iteration of the loop that unblocks the blocked readers
ReleaseReaders(t) ==
    /\ fatal = ""
    /\ pc[t] = "releaseReaders"
    /\ LET i == loc[t].i + 1 IN
       IF i < loc[t].r
       THEN Semrelease(t, "readerSem", FALSE, "releaseReaders", [loc[t] EXCEPT !.i = i])
       ELSE Semrelease(t, "readerSem", FALSE, "unlockW", [loc[t] EXCEPT !.i = 0, !.r = 0])
    /\ UNCHANGED <<state, fatal, calls, rwVars, exceptRW>>

\* Unlock: rw.w.Unlock()
RWUnlockW(t) ==
    /\ Unlock(t, "unlockW", "idle")
    /\ UNCHANGED <<calls, rwVars, exceptRW>>

NextRW ==
    \E t \in RWTasks :
        \/ RLock(t)
        \/ RLockSem(t)
        \/ RUnlock(t)
        \/ RUnlockSlow(t)
        \/ RUnlockRelease(t)
        \/ RWLock(t)
        \/ RWInner(t)
        \/ Announce(t)
        \/ WaitReaders(t)
        \/ WriterSem(t)
        \/ RWUnlock(t)
        \/ ReleaseReaders(t)
        \/ RWUnlockW(t)

SpecRW == Init /\ [][NextRW]_vars

\* Unlock, called by a task while no task holds the write lock: an RWMutex
\* is not bound to the task that locked it.
RWStrayUnlock(t) ==
    /\ calls < MaxRWOps
    /\ calls' = calls + 1
    /\ \A u \in RWTasks : pc[u] # "writing"
    /\ RWUnlockFrom(t, "idle")

NextRWMisuse ==
    \E t \in RWTasks :
        \/ RLock(t)
        \/ RLockSem(t)
        \/ RUnlock(t)
        \/ RUnlockSlow(t)
        \/ RUnlockRelease(t)
        \/ RWLock(t)
        \/ RWInner(t)
        \/ Announce(t)
        \/ WaitReaders(t)
        \/ WriterSem(t)
        \/ RWUnlock(t)
        \/ ReleaseReaders(t)
        \/ RWUnlockW(t)
        \/ RWStrayUnlock(t)

SpecRWMisuse == Init /\ [][NextRWMisuse]_vars

\* RUnlock, called by a task while no task holds a read lock.
RWStrayRUnlock(t) ==
    /\ calls < MaxRWOps
    /\ calls' = calls + 1
    /\ \A u \in RWTasks : pc[u] # "reading"
    /\ RUnlockFrom(t, "idle")

NextRWReadMisuse ==
    \E t \in RWTasks :
        \/ RLock(t)
        \/ RLockSem(t)
        \/ RUnlock(t)
        \/ RUnlockSlow(t)
        \/ RUnlockRelease(t)
        \/ RWLock(t)
        \/ RWInner(t)
        \/ Announce(t)
        \/ WaitReaders(t)
        \/ WriterSem(t)
        \/ RWUnlock(t)
        \/ ReleaseReaders(t)
        \/ RWUnlockW(t)
        \/ RWStrayRUnlock(t)

SpecRWReadMisuse == Init /\ [][NextRWReadMisuse]_vars

\* RLock, called again by a task that already holds a read lock and has not
\* called RLock twice before.
RLockAgain(t) ==
    /\ fatal = ""
    /\ pc[t] = "reading"
    /\ loc[t].depth = 0
    /\ calls < MaxRWOps
    /\ calls' = calls + 1
    /\ readerCount' = ReaderEnters(readerCount)
    /\ pc' = [pc EXCEPT ![t] = IF WriterPending(readerCount') THEN "rlockSem" ELSE "reading"]
    /\ loc' = [loc EXCEPT ![t].blockedBy = AnnouncedWriter, ![t].depth = 1]
    /\ UNCHANGED <<state, sem, fatal, readerWait, exceptRW>>

\* The inner RUnlock has returned: the task still holds its first read lock.
RUnlockInnerReturn(t) ==
    /\ fatal = ""
    /\ pc[t] = "idle"
    /\ loc[t].depth = 1
    /\ pc' = [pc EXCEPT ![t] = "reading"]
    /\ loc' = [loc EXCEPT ![t].depth = 0]
    /\ UNCHANGED <<state, sem, fatal, calls, rwVars, exceptRW>>

\* RLock and Lock, called by a task that holds no read lock
RLockFirst(t) ==
    /\ loc[t].depth = 0
    /\ RLock(t)

RWLockFirst(t) ==
    /\ loc[t].depth = 0
    /\ RWLock(t)

NextRWRecursive ==
    \E t \in RWTasks :
        \/ RLockFirst(t)
        \/ RLockAgain(t)
        \/ RLockSem(t)
        \/ RUnlock(t)
        \/ RUnlockInnerReturn(t)
        \/ RUnlockSlow(t)
        \/ RUnlockRelease(t)
        \/ RWLockFirst(t)
        \/ RWInner(t)
        \/ Announce(t)
        \/ WaitReaders(t)
        \/ WriterSem(t)
        \/ RWUnlock(t)
        \/ ReleaseReaders(t)
        \/ RWUnlockW(t)

SpecRWRecursive == Init /\ [][NextRWRecursive]_vars

(***************************************************************************)
(* RWMutex: properties                                                     *)
(***************************************************************************)
\* Task t is between the return of Lock and its call of Unlock.
WriteHeld(t) == pc[t] = "writing"

\* Task t is between the return of RLock and its call of RUnlock.
ReadHeld(t) == pc[t] = "reading"

\* C2: while a task holds the write lock no other task holds the write lock
\* and no task holds a read lock.
RWExclusion ==
    \A t \in RWTasks :
        WriteHeld(t) =>
            \A u \in RWTasks : ~ReadHeld(u) /\ (WriteHeld(u) => u = t)

\* A writer holds the lock while a reader that arrived later is parked on the
\* read semaphore, after an earlier call.
RWWriterWithQueuedReader ==
    \E t, u \in RWTasks :
        /\ WriteHeld(t)
        /\ pc[u] = "parked" /\ loc[u].s = "readerSem"
        /\ calls >= 3

\* C13: an RLock called while no writer holds the lock or has announced
\* itself (readerCount >= 0) returns without parking, however many readers
\* hold the lock.
RWReadersShare ==
    [][\A t \in RWTasks :
          (/\ pc[t] = "idle"
           /\ readerCount >= 0
           /\ readerCount' = readerCount + 1) => pc'[t] \in {"idle", "reading"}]_vars

\* Two tasks hold the read lock at the same time.
RWTwoReaders ==
    \E t, u \in RWTasks : t # u /\ ReadHeld(t) /\ ReadHeld(u) /\ readerCount = 2

\* C12: an RLock that starts while a writer is announced does not return
\* until that writer has called Unlock.
RWPendingWriterBlocksReaders ==
    \A u \in RWTasks : ReadHeld(u) => loc[u].blockedBy = 0

\* C20: an Unlock that is called while no task holds the write lock throws
\* "sync: Unlock of unlocked RWMutex" and does not go on to wake readers or
\* to unlock rw.w.
RWUnlockOfUnlocked ==
    [][\A t \in RWTasks :
          RWStrayUnlock(t) =>
              /\ fatal' = "sync: Unlock of unlocked RWMutex"
              /\ pc'[t] = "fatal"]_vars

\* The same for the calls that find no writer announced.
RWUnlockUnannounced ==
    [][\A t \in RWTasks :
          (RWStrayUnlock(t) /\ readerCount >= 0) =>
              /\ fatal' = "sync: Unlock of unlocked RWMutex"
              /\ pc'[t] = "fatal"
              /\ sem' = sem
              /\ state' = state]_vars

\* C21: an RUnlock that is called while no task holds a read lock throws
\* "sync: RUnlock of unlocked RWMutex", whether the RWMutex is idle, locked
\* for writing, or has readers waiting for a writer.
RWRUnlockOfUnlocked ==
    [][\A t \in RWTasks :
          RWStrayRUnlock(t) =>
              /\ fatal' = "sync: RUnlock of unlocked RWMutex"
              /\ pc'[t] = "fatal"]_vars

\* The same for the calls that find the reader count at 0 or at
\* -rwmutexMaxReaders: no reader has announced itself.
RWRUnlockNoReaders ==
    [][\A t \in RWTasks :
          (RWStrayRUnlock(t) /\ readerCount \in {0, -rwmutexMaxReaders}) =>
              /\ fatal' = "sync: RUnlock of unlocked RWMutex"
              /\ pc'[t] = "fatal"
              /\ sem' = sem
              /\ readerWait' = readerWait]_vars

(***************************************************************************)
(* WaitGroup.  The 64-bit state is the pair wg = [v, w]: v the counter in  *)
(* the high 32 bits, w the waiter count in the low 32 bits.  loc[t].zero   *)
(* records that the counter was zero at some state since task t called     *)
(* Wait.                                                                   *)
(***************************************************************************)
InWait(t) ==
    pc[t] \in {"waitLoad", "waitCAS", "waitSem", "waitCheck", "parked", "notified"}

\* The tasks inside Wait learn that the counter is zero.
NoteZero(l, v) ==
    [u \in Tasks |-> IF InWait(u) /\ v = 0 THEN [l[u] EXCEPT !.zero = TRUE] ELSE l[u]]

\* The waiters a zero counter has released, or is about to, learn that an
\* Add with a positive delta has taken the counter off zero again.
NoteReuse(l, delta) ==
    [u \in Tasks |->
        IF delta > 0 /\ wg.v = 0 /\ pc[u] \in {"waitSem", "parked", "notified", "waitCheck"}
        THEN [l[u] EXCEPT !.reused = TRUE] ELSE l[u]]

\* An Add that never wakes anybody.
AddReturnsAlways(v, w) == TRUE

\* Add returns without waking anybody: v > 0 || w == 0
AddReturns(v, w) == v > 0 \/ w = 0

\* Add: atomic.AddUint64(statep, uint64(delta)<<32) and the checks on the result
Add(t, delta) ==
    /\ fatal = ""
    /\ pc[t] = "idle"
    /\ LET v == wg.v + delta
           w == wg.w
       IN
       /\ wg' = [wg EXCEPT !.v = v]
       /\ IF v < 0
          THEN /\ Throw(t, "sync: negative WaitGroup counter")
               /\ loc' = loc
          ELSE IF w # 0 /\ delta > 0 /\ v = delta
          THEN /\ Throw(t, "sync: WaitGroup misuse: Add called concurrently with Wait")
               /\ loc' = loc
          ELSE IF AddReturns(v, w)
          THEN /\ pc' = pc
               /\ loc' = NoteReuse(NoteZero(loc, v), delta)
               /\ fatal' = fatal
          ELSE /\ pc' = [pc EXCEPT ![t] = "addCheck"]
               /\ loc' = NoteZero([loc EXCEPT ![t].v = v, ![t].w = w], v)
               /\ fatal' = fatal
    /\ sem' = sem

\* Add: if *statep != state { panic }
AddCheck(t) ==
    /\ fatal = ""
    /\ pc[t] = "addCheck"
    /\ IF wg # [v |-> loc[t].v, w |-> loc[t].w]
       THEN Throw(t, "sync: WaitGroup misuse: Add called concurrently with Wait")
       ELSE /\ pc' = [pc EXCEPT ![t] = "addReset"]
            /\ fatal' = fatal
    /\ UNCHANGED <<loc, sem, wg, calls, exceptWG>>

\* Add: *statep = 0
AddReset(t) ==
    /\ fatal = ""
    /\ pc[t] = "addReset"
    /\ wg' = [v |-> 0, w |-> 0]
    /\ pc' = [pc EXCEPT ![t] = "addRelease"]
    /\ loc' = NoteZero(loc, 0)
    /\ UNCHANGED <<sem, fatal, calls, exceptWG>>

\* An Add that releases one waiter only.
AddReleaseOnce(t) ==
    /\ fatal = ""
    /\ pc[t] = "addRelease"
    /\ Semrelease(t, "wgSem", FALSE, "idle", NoLocals)
    /\ UNCHANGED <<fatal, wg, calls, exceptWG>>

\* Add: one iteration of for ; w != 0; w-- { runtime_Semrelease(semap, false, 0) }
AddRelease(t) ==
    /\ fatal = ""
    /\ pc[t] = "addRelease"
    /\ LET w == loc[t].w - 1 IN
       IF w # 0
       THEN Semrelease(t, "wgSem", FALSE, "addRelease", [loc[t] EXCEPT !.w = w])
       ELSE Semrelease(t, "wgSem", FALSE, "idle", NoLocals)
    /\ UNCHANGED <<fatal, wg, calls, exceptWG>>

\* A Wait that returns with one Done outstanding.
WaitReturnsAtOne(v) == v <= 1

\* Wait: v == 0, the counter is zero and Wait returns
WaitReturns(v) == v = 0

\* Wait: state := atomic.LoadUint64(statep), on entry
Wait(t) ==
    /\ fatal = ""
    /\ pc[t] = "idle"
    /\ calls < MaxWGOps
    /\ calls' = calls + 1
    /\ IF WaitReturns(wg.v)
       THEN /\ pc' = [pc EXCEPT ![t] = "waitDone"]
            /\ loc' = [loc EXCEPT ![t].zero = (wg.v = 0)]
       ELSE /\ pc' = [pc EXCEPT ![t] = "waitCAS"]
            /\ loc' = [loc EXCEPT ![t].v = wg.v, ![t].w = wg.w, ![t].zero = (wg.v = 0)]
    /\ UNCHANGED <<sem, fatal, wg, exceptWG>>

\* Wait: state := atomic.LoadUint64(statep), after a failed CAS
WaitLoad(t) ==
    /\ fatal = ""
    /\ pc[t] = "waitLoad"
    /\ IF WaitReturns(wg.v)
       THEN /\ pc' = [pc EXCEPT ![t] = "waitDone"]
            /\ loc' = [loc EXCEPT ![t].v = 0, ![t].w = 0]
       ELSE /\ pc' = [pc EXCEPT ![t] = "waitCAS"]
            /\ loc' = [loc EXCEPT ![t].v = wg.v, ![t].w = wg.w]
    /\ UNCHANGED <<sem, fatal, wg, calls, exceptWG>>

\* A 64-bit increment that never carries out of its low half.
NoCarry(w) == FALSE

\* state+1 on the uint64: the low 32 bits are all ones and carry into the
\* high 32 bits
Carry(w) == w = -1

\* Wait: atomic.CompareAndSwapUint64(statep, state, state+1)
WaitCAS(t) ==
    /\ fatal = ""
    /\ pc[t] = "waitCAS"
    /\ IF wg = [v |-> loc[t].v, w |-> loc[t].w]
       THEN /\ wg' = [v |-> IF Carry(wg.w) THEN AddInt32(wg.v, 1) ELSE wg.v,
                      w |-> AddInt32(wg.w, 1)]
            /\ pc' = [pc EXCEPT ![t] = "waitSem"]
       ELSE /\ wg' = wg
            /\ pc' = [pc EXCEPT ![t] = "waitLoad"]
    /\ loc' = [loc EXCEPT ![t].v = 0, ![t].w = 0]
    /\ UNCHANGED <<sem, fatal, calls, exceptWG>>

\* Wait: runtime_Semacquire(semap)
WaitSem(t) ==
    /\ fatal = ""
    /\ pc[t] = "waitSem"
    /\ Semacquire(t, "wgSem", FALSE, "waitCheck")
    /\ UNCHANGED <<fatal, wg, calls, exceptWG>>

\* A notified waiter of the WaitGroup semaphore retries.
WaitWake(t) ==
    /\ SemWake(t)
    /\ UNCHANGED <<fatal, wg, calls, exceptWG>>

\* A Wait that returns whatever state it finds.
StateIgnored(s) == FALSE

\* Wait: *statep != 0
StateNonZero(s) == s # [v |-> 0, w |-> 0]

\* Wait: if *statep != 0 { panic }, and the return
WaitCheck(t) ==
    /\ fatal = ""
    /\ pc[t] = "waitCheck"
    /\ IF StateNonZero(wg)
       THEN Throw(t, "sync: WaitGroup is reused before previous Wait has returned")
       ELSE /\ pc' = [pc EXCEPT ![t] = "waitDone"]
            /\ fatal' = fatal
    /\ UNCHANGED <<loc, sem, wg, calls, exceptWG>>

\* Wait has returned to its caller.
WaitReturn(t) ==
    /\ fatal = ""
    /\ pc[t] = "waitDone"
    /\ pc' = [pc EXCEPT ![t] = "idle"]
    /\ loc' = [loc EXCEPT ![t] = NoLocals]
    /\ UNCHANGED <<sem, fatal, wg, calls, exceptWG>>

\* The usage rules: an Add with a positive delta that starts from a zero
\* counter happens before the Wait calls it is to release, and after every
\* earlier Wait has returned.
AddAllowed ==
    wg.v = 0 =>
        \A u \in WGTasks :
            ~InWait(u) /\ pc[u] \notin {"waitDone", "addCheck", "addReset", "addRelease"}

WGAdd(t) ==
    /\ calls < MaxWGOps
    /\ AddAllowed
    /\ calls' = calls + 1
    /\ \E delta \in 1..MaxDelta : Add(t, delta)
    /\ UNCHANGED exceptWG

\* Done: wg.Add(-1), once for every unit added
Done(t) ==
    /\ wg.v > 0
    /\ Add(t, -1)
    /\ UNCHANGED <<calls, exceptWG>>

NextWG ==
    \E t \in WGTasks :
        \/ WGAdd(t)
        \/ Done(t)
        \/ AddCheck(t)
        \/ AddReset(t)
        \/ AddRelease(t)
        \/ Wait(t)
        \/ WaitLoad(t)
        \/ WaitCAS(t)
        \/ WaitSem(t)
        \/ WaitWake(t)
        \/ WaitCheck(t)
        \/ WaitReturn(t)

SpecWG == Init /\ [][NextWG]_vars

\* Every task that is inside Add or Wait and can take a step is scheduled;
\* whether Add, Done or Wait is called at all is up to the callers.
FairWG ==
    \A t \in WGTasks :
        WF_vars(\/ AddCheck(t) \/ AddReset(t) \/ AddRelease(t)
                \/ WaitLoad(t) \/ WaitCAS(t) \/ WaitSem(t)
                \/ WaitWake(t) \/ WaitCheck(t) \/ WaitReturn(t))

FairSpecWG == SpecWG /\ FairWG

\* The WaitGroup is reused too early: an Add with a positive delta starts
\* from a zero counter while an earlier Wait has not returned.
WGReuseAdd(t) ==
    /\ calls < MaxWGOps
    /\ ~AddAllowed
    /\ calls' = calls + 1
    /\ \E delta \in 1..MaxDelta : Add(t, delta)
    /\ UNCHANGED exceptWG

NextWGReuse ==
    \E t \in WGTasks :
        \/ WGAdd(t)
        \/ WGReuseAdd(t)
        \/ Done(t)
        \/ AddCheck(t)
        \/ AddReset(t)
        \/ AddRelease(t)
        \/ Wait(t)
        \/ WaitLoad(t)
        \/ WaitCAS(t)
        \/ WaitSem(t)
        \/ WaitWake(t)
        \/ WaitCheck(t)
        \/ WaitReturn(t)

SpecWGReuse == Init /\ [][NextWGReuse]_vars

(***************************************************************************)
(* WaitGroup: properties                                                   *)
(***************************************************************************)
\* C3: every return of Wait is preceded, after that Wait was called, by a
\* state in which the counter was zero.
WaitSawZero ==
    \A t \in WGTasks : pc[t] = "waitDone" => loc[t].zero

\* A Wait that parked while the counter was positive has returned.
WaitReleased ==
    \E t \in WGTasks : pc[t] = "waitDone" /\ loc[t].slept

\* The waiters that registered and have not passed the semaphore.
WaitersAtSem == {t \in WGTasks : pc[t] \in {"waitSem", "parked", "notified"}}

\* The releases an Add that reset the state has still to make.
ReleasesToCome ==
    SumOver([t \in WGTasks |-> IF pc[t] = "addRelease" THEN loc[t].w ELSE 0], WGTasks)

\* C14: an Add that brings the counter to zero with w waiters registered
\* resets the state to zero and releases the semaphore exactly w times: the
\* waiters that have not passed the semaphore are as many as the waiter
\* count, the permits on the semaphore and the releases still to come
\* together, so every waiter gets one permit and none is left over.
WGZeroTransition ==
    /\ Cardinality(WaitersAtSem) = wg.w + sem["wgSem"].count + ReleasesToCome
    /\ \A t \in WGTasks : pc[t] = "addRelease" => wg = [v |-> 0, w |-> 0]
    /\ (WaitersAtSem = {} /\ ReleasesToCome = 0) => sem["wgSem"].count = 0

\* An Add has released the first of two waiters and is about to release the
\* second.
WGReleasingSecond ==
    \E t, u, v \in WGTasks :
        /\ pc[t] = "addRelease" /\ loc[t].w = 1
        /\ pc[u] = "notified"
        /\ pc[v] = "parked"

\* C15: under fair scheduling a Wait returns once the counter has been zero
\* since it was called, whether it parked or not; and a Wait that is called
\* while the counter is zero returns at once, without registering as a
\* waiter, touching the semaphore or parking.
WGWaitReturns ==
    /\ \A t \in WGTasks : (InWait(t) /\ loc[t].zero) ~> (pc[t] = "waitDone")
    /\ [][\A t \in WGTasks :
              (Wait(t) /\ wg.v = 0) =>
                  /\ pc'[t] = "waitDone"
                  /\ wg' = wg
                  /\ sem' = sem
                  /\ ~loc'[t].slept]_vars

\* A Wait that parked has returned after the counter reached zero, and
\* another Wait, called while the counter was zero, has returned without
\* parking.
WGBothWaitsReturned ==
    \E t, u \in WGTasks :
        /\ t # u
        /\ pc[t] = "waitDone" /\ loc[t].slept
        /\ pc[u] = "waitDone" /\ ~loc[u].slept
        /\ wg = [v |-> 0, w |-> 0]

\* C22: a Wait that was released by a zero counter, and that re-reads the
\* state after an Add with a positive delta has taken effect, panics with
\* "WaitGroup is reused before previous Wait has returned" and does not
\* return.
WGReusePanics ==
    [][\A t \in WGTasks :
          (WaitCheck(t) /\ loc[t].reused) =>
              /\ fatal' = "sync: WaitGroup is reused before previous Wait has returned"
              /\ pc'[t] = "fatal"]_vars

\* C22, for the state the Wait finds: it panics if the state is not zero when
\* it re-reads it, and returns if Done calls have taken the state back to
\* zero by then.
WGReusePanicsIfNonZero ==
    [][\A t \in WGTasks :
          WaitCheck(t) =>
              IF wg # [v |-> 0, w |-> 0]
              THEN /\ fatal' = "sync: WaitGroup is reused before previous Wait has returned"
                   /\ pc'[t] = "fatal"
              ELSE /\ fatal' = ""
                   /\ pc'[t] = "waitDone"]_vars

\* A Wait has panicked on the state an early Add left.
WGReusePanicked ==
    \E t \in WGTasks :
        /\ pc[t] = "fatal"
        /\ loc[t].reused
        /\ fatal = "sync: WaitGroup is reused before previous Wait has returned"
        /\ wg.v > 0

(***************************************************************************)
(* Once.  o.m is the Mutex above; task t passes its own function f_t to    *)
(* Do, and ran[t] and finished[t] count the calls and returns of f_t.      *)
(***************************************************************************)
\* Do: atomic.LoadUint32(&o.done) == 0
FastPathMiss(d) == d = 0

\* Do: the load of o.done on the fast path
Do(t) ==
    /\ fatal = ""
    /\ pc[t] = "idle"
    /\ calls < MaxDoCalls
    /\ calls' = calls + 1
    /\ pc' = [pc EXCEPT ![t] = IF FastPathMiss(done) THEN "doSlow" ELSE "doReturn"]
    /\ UNCHANGED <<loc, state, sem, fatal, onceVars, exceptOnce>>

\* doSlow: o.m.Lock()
OnceLock(t) ==
    /\ Lock(t, "doSlow", "doCheck")
    /\ UNCHANGED <<calls, onceVars, exceptOnce>>

\* The steps of o.m.Lock() and o.m.Unlock()
OnceInner(t) ==
    /\ MutexStep(t)
    /\ UNCHANGED <<calls, onceVars, exceptOnce>>

\* A doSlow that does not look at o.done again.
SlowPathMissAlways(d) == TRUE

\* doSlow: o.done == 0 under the mutex
SlowPathMiss(d) == d = 0

\* doSlow: the check of o.done under the mutex
DoCheck(t) ==
    /\ fatal = ""
    /\ pc[t] = "doCheck"
    /\ pc' = [pc EXCEPT ![t] = IF SlowPathMiss(done) THEN "callF" ELSE "doUnlock"]
    /\ UNCHANGED <<loc, state, sem, fatal, calls, onceVars, exceptOnce>>

\* A doSlow that stores o.done before f() has run.
CallFStoringDone(t) ==
    /\ fatal = ""
    /\ pc[t] = "callF"
    /\ ran' = [ran EXCEPT ![t] = @ + 1]
    /\ done' = 1
    /\ pc' = [pc EXCEPT ![t] = "inF"]
    /\ UNCHANGED <<loc, state, sem, fatal, calls, finished, exceptOnce>>

\* doSlow: f() is called
CallF(t) ==
    /\ fatal = ""
    /\ pc[t] = "callF"
    /\ ran' = [ran EXCEPT ![t] = @ + 1]
    /\ pc' = [pc EXCEPT ![t] = "inF"]
    /\ UNCHANGED <<loc, state, sem, fatal, calls, done, finished, exceptOnce>>

\* doSlow: f() returns
ReturnF(t) ==
    /\ fatal = ""
    /\ pc[t] = "inF"
    /\ finished' = [finished EXCEPT ![t] = @ + 1]
    /\ pc' = [pc EXCEPT ![t] = "storeDone"]
    /\ UNCHANGED <<loc, state, sem, fatal, calls, done, ran, exceptOnce>>

\* doSlow: the deferred atomic.StoreUint32(&o.done, 1)
StoreDone(t) ==
    /\ fatal = ""
    /\ pc[t] = "storeDone"
    /\ done' = 1
    /\ pc' = [pc EXCEPT ![t] = "doUnlock"]
    /\ UNCHANGED <<loc, state, sem, fatal, calls, ran, finished, exceptOnce>>

\* doSlow: the deferred o.m.Unlock()
OnceUnlock(t) ==
    /\ Unlock(t, "doUnlock", "doReturn")
    /\ UNCHANGED <<calls, onceVars, exceptOnce>>

\* Do has returned to its caller.
DoReturn(t) ==
    /\ fatal = ""
    /\ pc[t] = "doReturn"
    /\ pc' = [pc EXCEPT ![t] = "idle"]
    /\ UNCHANGED <<loc, state, sem, fatal, calls, onceVars, exceptOnce>>

NextOnce ==
    \E t \in OnceTasks :
        \/ Do(t)
        \/ OnceLock(t)
        \/ OnceInner(t)
        \/ DoCheck(t)
        \/ CallF(t)
        \/ ReturnF(t)
        \/ StoreDone(t)
        \/ OnceUnlock(t)
        \/ DoReturn(t)

SpecOnce == Init /\ [][NextOnce]_vars

\* A panic in f() that unwinds without running the deferred calls.
PanicFSkippingDefers(t) ==
    /\ fatal = ""
    /\ pc[t] = "inF"
    /\ pc' = [pc EXCEPT ![t] = "doPanicked"]
    /\ UNCHANGED <<loc, state, sem, fatal, calls, onceVars, exceptOnce>>

\* doSlow: f() panics, and the deferred calls run in reverse order
PanicF(t) ==
    /\ fatal = ""
    /\ pc[t] = "inF"
    /\ pc' = [pc EXCEPT ![t] = "storeDonePanic"]
    /\ UNCHANGED <<loc, state, sem, fatal, calls, onceVars, exceptOnce>>

\* doSlow: the deferred atomic.StoreUint32(&o.done, 1), run by the panic
StoreDonePanic(t) ==
    /\ fatal = ""
    /\ pc[t] = "storeDonePanic"
    /\ done' = 1
    /\ pc' = [pc EXCEPT ![t] = "doUnlockPanic"]
    /\ UNCHANGED <<loc, state, sem, fatal, calls, ran, finished, exceptOnce>>

\* doSlow: the deferred o.m.Unlock(), run by the panic
OnceUnlockPanic(t) ==
    /\ Unlock(t, "doUnlockPanic", "doPanicked")
    /\ UNCHANGED <<calls, onceVars, exceptOnce>>

\* The panic has left Do, and the caller recovers from it.
DoPanicked(t) ==
    /\ fatal = ""
    /\ pc[t] = "doPanicked"
    /\ pc' = [pc EXCEPT ![t] = "idle"]
    /\ UNCHANGED <<loc, state, sem, fatal, calls, onceVars, exceptOnce>>

NextOncePanic ==
    \E t \in OnceTasks :
        \/ Do(t)
        \/ OnceLock(t)
        \/ OnceInner(t)
        \/ DoCheck(t)
        \/ CallF(t)
        \/ ReturnF(t)
        \/ PanicF(t)
        \/ StoreDone(t)
        \/ StoreDonePanic(t)
        \/ OnceUnlock(t)
        \/ OnceUnlockPanic(t)
        \/ DoReturn(t)
        \/ DoPanicked(t)

SpecOncePanic == Init /\ [][NextOncePanic]_vars

(***************************************************************************)
(* Once: properties                                                        *)
(***************************************************************************)
\* C4: at most one of the supplied functions is ever started, it is started
\* at most once, and once any Do has returned exactly one has been started.
OnceExactlyOnce ==
    /\ SumOver(ran, OnceTasks) <= 1
    /\ (\E t \in OnceTasks : pc[t] = "doReturn") => SumOver(ran, OnceTasks) = 1

\* Two Do calls that both missed the fast path have returned, one of them
\* after waiting for the mutex in the slow path.
OnceContendedReturn ==
    \E t, u \in OnceTasks :
        /\ t # u
        /\ pc[t] = "doReturn" /\ ran[t] = 1
        /\ pc[u] = "doReturn" /\ ran[u] = 0 /\ done = 1
        /\ calls = 2

\* C5: no call of Do returns before the executed function has finished.
OnceReturnsAfterF ==
    \A t \in OnceTasks :
        pc[t] = "doReturn" => \E u \in OnceTasks : finished[u] = 1 /\ ran[u] = 1

\* A Do call that lost the race has returned while the winner is still in
\* its deferred Unlock.
OnceLoserReturned ==
    \E t, u \in OnceTasks :
        /\ pc[t] = "doReturn" /\ ran[t] = 0
        /\ ran[u] = 1 /\ pc[u] \in {"doUnlock", "unlockLoop", "unlockWake", "unlockRead"}

\* Task t is unwinding doSlow after its f() panicked.
InPanic(t) ==
    \/ pc[t] \in {"storeDonePanic", "doUnlockPanic"}
    \/ pc[t] \in {"unlockLoop", "unlockRead", "unlockWake", "unlockStarving"}
        /\ loc[t].ret = "doPanicked"

\* The f() of some task panicked and the panic has left doSlow.
PanicOver ==
    \E u \in OnceTasks :
        ran[u] = 1 /\ finished[u] = 0 /\ pc[u] # "inF" /\ ~InPanic(u)

\* C23: when f() has panicked and the panic has left Do, o.done is set, no
\* function is ever started again, every Do called from then on returns on
\* the fast path without touching the mutex, and the mutex is released: it
\* is unlocked once the tasks that were inside Do have left it.
OncePanicStillDone ==
    /\ [](PanicOver =>
            /\ done = 1
            /\ SumOver(ran, OnceTasks) = 1
            /\ (\A t \in OnceTasks : pc[t] \in {"idle", "doReturn", "doPanicked"}) => state = 0)
    /\ [][\A t \in OnceTasks :
              (PanicOver /\ Do(t)) =>
                  /\ pc'[t] = "doReturn"
                  /\ state' = state
                  /\ sem' = sem
                  /\ ran' = ran]_vars

\* After the f() of one task has panicked, a Do of another task that had
\* waited for the mutex and a later Do have both returned without calling
\* their function.
OncePanicLaterDo ==
    \E t, u \in OnceTasks :
        /\ t # u
        /\ ran[u] = 1 /\ finished[u] = 0 /\ pc[u] = "idle"
        /\ pc[t] = "doReturn" /\ ran[t] = 0
        /\ calls = 3
        /\ state = 0

(***************************************************************************)
(* Map, used by one task.  An entry is an index into ep, the p fields:     *)
(* ep[e] is a value, PNil, PExpunged, or PFree for an index no map refers  *)
(* to.  A Go map is [isnil, m] with m[k] = NoEntry for a key it lacks.     *)
(***************************************************************************)
\* m.dirty[key] = e; an assignment to an entry of a nil map panics.
SetDirty(M, k, e) ==
    IF M.dirty.isnil
    THEN [M EXCEPT !.panic = TRUE]
    ELSE [M EXCEPT !.dirty.m[k] = e]

\* newEntry: a fresh entry holding v
NewEntry(M) == CHOOSE e \in Entries : M.ep[e] = PFree /\ \A f \in Entries : M.ep[f] = PFree => e <= f

\* entry.load
EntryLoad(p) ==
    IF p = PNil \/ p = PExpunged
    THEN [value |-> 0, ok |-> FALSE]
    ELSE [value |-> p, ok |-> TRUE]

\* missLocked
MissLocked(M) ==
    LET misses == M.misses + 1 IN
    IF misses < MapLen(M.dirty)
    THEN [M EXCEPT !.misses = misses]
    ELSE [M EXCEPT !.read = [m |-> M.dirty, amended |-> FALSE],
                   !.dirty = NilMap,
                   !.misses = 0]

\* A tryExpungeLocked that expunges an entry whatever it holds.
ExpungeAll(p) == PExpunged

\* tryExpungeLocked: the p field it leaves, the entry is expunged iff that is
\* PExpunged
TryExpungeLocked(p) == IF p = PNil THEN PExpunged ELSE p

\* dirtyLocked
DirtyLocked(M) ==
    IF ~M.dirty.isnil
    THEN M
    ELSE LET InRead(e) == \E k \in Keys : M.read.m.m[k] = e
             ep2 == [e \in Entries |->
                        IF InRead(e) THEN TryExpungeLocked(M.ep[e]) ELSE M.ep[e]]
             d == [k \in Keys |->
                     LET e == M.read.m.m[k] IN
                     IF e # NoEntry /\ ep2[e] # PExpunged THEN e ELSE NoEntry]
         IN  [M EXCEPT !.ep = ep2, !.dirty = [isnil |-> FALSE, m |-> d]]

\* Load
Load(M, k) ==
    LET e1 == M.read.m.m[k]
        slow == e1 = NoEntry /\ M.read.amended
        e == IF slow THEN M.dirty.m[k] ELSE e1
        M2 == IF slow THEN MissLocked(M) ELSE M
        r == IF e = NoEntry THEN [value |-> 0, ok |-> FALSE] ELSE EntryLoad(M.ep[e])
    IN  [M |-> M2, value |-> r.value, ok |-> r.ok]

\* A tryStore that also stores into an expunged entry.
TryStoreAlways(p) == TRUE

\* tryStore succeeds unless the entry is expunged.
TryStore(p) == p # PExpunged

\* A Store of a new key that leaves the read-only map marked as complete.
AmendNever(M) == M

\* m.read.Store(readOnly{m: read.m, amended: true})
Amend(M) == [M EXCEPT !.read.amended = TRUE]

\* The slow path of Store and of LoadOrStore for a key that is in neither
\* map: materialize the dirty map and add a new entry.
StoreNew(M, k, v) ==
    LET M1 == IF ~M.read.amended
              THEN Amend(DirtyLocked(M))
              ELSE M
        e == NewEntry(M1)
    IN  SetDirty([M1 EXCEPT !.ep[e] = v], k, e)

\* An unexpungeLocked whose caller does not list the entry in the dirty map.
UnexpungeUnlisted(M, k, e) ==
    IF M.ep[e] = PExpunged
    THEN [M EXCEPT !.ep[e] = PNil]
    ELSE M

\* unexpungeLocked, and m.dirty[key] = e if the entry was expunged
Unexpunge(M, k, e) ==
    IF M.ep[e] = PExpunged
    THEN SetDirty([M EXCEPT !.ep[e] = PNil], k, e)
    ELSE M

\* Store: from m.mu.Lock() to m.mu.Unlock()
StoreLocked(M, k, v) ==
    LET e == M.read.m.m[k] IN
    IF e # NoEntry
    THEN [Unexpunge(M, k, e) EXCEPT !.ep[e] = v]
    ELSE IF M.dirty.m[k] # NoEntry
    THEN [M EXCEPT !.ep[M.dirty.m[k]] = v]
    ELSE StoreNew(M, k, v)

\* Store
Store(M, k, v) ==
    LET e == M.read.m.m[k] IN
    IF e # NoEntry /\ TryStore(M.ep[e])
    THEN [M EXCEPT !.ep[e] = v]
    ELSE StoreLocked(M, k, v)

\* A tryLoadOrStore that stores whatever the entry holds.
TryLoadOrStoreAlways(M, e, v) ==
    [M |-> [M EXCEPT !.ep[e] = v], value |-> v, loaded |-> FALSE]

\* tryLoadOrStore on an entry that is not expunged
TryLoadOrStore(M, e, v) ==
    IF M.ep[e] # PNil
    THEN [M |-> M, value |-> M.ep[e], loaded |-> TRUE]
    ELSE [M |-> [M EXCEPT !.ep[e] = v], value |-> v, loaded |-> FALSE]

\* LoadOrStore: from m.mu.Lock() to m.mu.Unlock()
LoadOrStoreLocked(M, k, v) ==
    LET e == M.read.m.m[k] IN
    IF e # NoEntry
    THEN TryLoadOrStore(Unexpunge(M, k, e), e, v)
    ELSE IF M.dirty.m[k] # NoEntry
    THEN LET r == TryLoadOrStore(M, M.dirty.m[k], v) IN
         [r EXCEPT !.M = MissLocked(r.M)]
    ELSE [M |-> StoreNew(M, k, v), value |-> v, loaded |-> FALSE]

\* LoadOrStore
LoadOrStore(M, k, v) ==
    LET e == M.read.m.m[k] IN
    IF e # NoEntry /\ M.ep[e] # PExpunged
    THEN TryLoadOrStore(M, e, v)
    ELSE LoadOrStoreLocked(M, k, v)

\* entry.delete
EntryDelete(M, e) ==
    IF M.ep[e] = PNil \/ M.ep[e] = PExpunged
    THEN [M |-> M, value |-> 0, loaded |-> FALSE]
    ELSE [M |-> [M EXCEPT !.ep[e] = PNil], value |-> M.ep[e], loaded |-> TRUE]

\* LoadAndDelete
LoadAndDelete(M, k) ==
    LET e1 == M.read.m.m[k]
        slow == e1 = NoEntry /\ M.read.amended
        e == IF slow THEN M.dirty.m[k] ELSE e1
        M2 == IF slow
              THEN MissLocked([M EXCEPT !.dirty.m[k] = NoEntry])
              ELSE M
    IN  IF e # NoEntry
        THEN EntryDelete(M2, e)
        ELSE [M |-> M2, value |-> 0, loaded |-> FALSE]

\* An entry no map refers to any more is garbage.
Collect(M) ==
    [M EXCEPT !.ep = [e \in Entries |->
        IF \E k \in Keys : M.read.m.m[k] = e \/ M.dirty.m[k] = e
        THEN M.ep[e] ELSE PFree]]

MapGuard == fatal = "" /\ ~syncMap.panic

MapFatal(M) == IF M.panic THEN "assignment to entry in nil map" ELSE fatal

MapLoad ==
    /\ MapGuard
    /\ \E k \in Keys :
        LET r == Load(syncMap, k) IN
        /\ syncMap' = Collect(r.M)
        /\ mres' = [op |-> "Load", key |-> k, value |-> r.value, ok |-> r.ok]
    /\ UNCHANGED <<ref, fatal, exceptMap>>

MapStore ==
    /\ MapGuard
    /\ \E k \in Keys, v \in Vals :
        LET M == Store(syncMap, k, v) IN
        /\ syncMap' = Collect(M)
        /\ fatal' = MapFatal(M)
        /\ ref' = [ref EXCEPT ![k] = v]
        /\ mres' = [op |-> "Store", key |-> k, value |-> v, ok |-> TRUE]
    /\ UNCHANGED exceptMap

MapLoadOrStore ==
    /\ MapGuard
    /\ \E k \in Keys, v \in Vals :
        LET r == LoadOrStore(syncMap, k, v) IN
        /\ syncMap' = Collect(r.M)
        /\ fatal' = MapFatal(r.M)
        /\ ref' = IF ref[k] = 0 THEN [ref EXCEPT ![k] = v] ELSE ref
        /\ mres' = [op |-> "LoadOrStore", key |-> k, value |-> r.value, ok |-> r.loaded]
    /\ UNCHANGED exceptMap

MapLoadAndDelete ==
    /\ MapGuard
    /\ \E k \in Keys :
        LET r == LoadAndDelete(syncMap, k) IN
        /\ syncMap' = Collect(r.M)
        /\ ref' = [ref EXCEPT ![k] = 0]
        /\ mres' = [op |-> "LoadAndDelete", key |-> k, value |-> r.value, ok |-> r.loaded]
    /\ UNCHANGED <<fatal, exceptMap>>

\* Delete: m.LoadAndDelete(key)
MapDelete ==
    /\ MapGuard
    /\ \E k \in Keys :
        /\ syncMap' = Collect(LoadAndDelete(syncMap, k).M)
        /\ ref' = [ref EXCEPT ![k] = 0]
        /\ mres' = [op |-> "Delete", key |-> k, value |-> 0, ok |-> FALSE]
    /\ UNCHANGED <<fatal, exceptMap>>

NextMap ==
    \/ MapLoad
    \/ MapStore
    \/ MapLoadOrStore
    \/ MapLoadAndDelete
    \/ MapDelete

SpecMap == Init /\ [][NextMap]_vars

(***************************************************************************)
(* Map, used by several tasks that call Store, Load and Range.  A task     *)
(* takes one step for every access to m.read or to an entry outside m.mu,  *)
(* and one step for a section under m.mu: m.dirty and m.misses are touched *)
(* only there, m.read is stored only there, and with no Delete no entry is *)
(* nil or expunged, so that the entry accesses of a section do not         *)
(* interfere with the steps outside it.  ref[k] is the value of the last   *)
(* Store of key k that has returned.                                       *)
(***************************************************************************)
\* A Range that iterates over m.read as it finds it.
RangeNoPromote(M) == M

\* Range, under m.mu: if read.amended, m.dirty becomes the new read
RangePromote(M) ==
    IF M.read.amended
    THEN [M EXCEPT !.read = [m |-> M.dirty, amended |-> FALSE],
                   !.dirty = NilMap,
                   !.misses = 0]
    ELSE M

\* m.mu.Lock(), the task going on at `to'
MuLock(t, from, to) ==
    /\ MapGuard
    /\ pc[t] = from
    /\ mu = 0
    /\ mu' = t
    /\ pc' = [pc EXCEPT ![t] = to]

\* The positions inside Load, and inside Store, LoadOrStore and Delete
LoadPcs == {"loadLock", "loadLocked", "loadEntry"}
WritePcs == {"tryStore", "storeLock", "storeLocked", "storeFinish", "dirtyLoop",
             "losTry", "losCAS", "losLock", "losLocked", "losFinish", "losDone",
             "deleteLock", "deleteLocked", "deleteEntry"}

\* No Store, LoadOrStore or Delete of key k has begun and not returned
Quiet(k) == \A u \in MapTasks : ~(pc[u] \in WritePcs /\ loc[u].key = k)

\* A Load that does not know what to expect: a write of its key overlaps it
Unknown == -1

\* Task t begins a write of key k with locals lt: the Loads of k that are
\* under way overlap it
BeginWrite(t, k, lt) ==
    [u \in Tasks |->
        IF u = t THEN lt
        ELSE IF pc[u] \in LoadPcs /\ loc[u].key = k
        THEN [loc[u] EXCEPT !.expect = Unknown]
        ELSE loc[u]]

\* The key is in neither map and the read-only map is not amended: the
\* section under m.mu calls dirtyLocked
NeedsDirty(M, k) ==
    M.read.m.m[k] = NoEntry /\ M.dirty.m[k] = NoEntry /\ ~M.read.amended

\* The keys of the read-only map
ReadKeys(M) == {k \in Keys : M.read.m.m[k] # NoEntry}

\* dirtyLocked: m.dirty = make(...), if m.dirty is nil
MakeDirty(M) == IF M.dirty.isnil THEN [M EXCEPT !.dirty = EmptyMap] ELSE M

\* Store: read, _ := m.read.Load().(readOnly); e, ok := read.m[key]
StoreBegin(t) ==
    /\ MapGuard
    /\ pc[t] = "idle"
    /\ calls < MaxMapCalls
    /\ calls' = calls + 1
    /\ \E k \in Keys, v \in Vals :
        LET e == syncMap.read.m.m[k] IN
        /\ loc' = BeginWrite(t, k, [loc[t] EXCEPT !.key = k, !.value = v, !.e = e,
                                                  !.op = "Store"])
        /\ pc' = [pc EXCEPT ![t] = IF e # NoEntry THEN "tryStore" ELSE "storeLock"]
    /\ UNCHANGED <<syncMap, ref, mu, fatal, exceptMapTasks>>

\* Store: e.tryStore(&value), and the return if it succeeds
StoreTry(t) ==
    /\ MapGuard
    /\ pc[t] = "tryStore"
    /\ IF TryStore(syncMap.ep[loc[t].e])
       THEN /\ syncMap' = [syncMap EXCEPT !.ep[loc[t].e] = loc[t].value]
            /\ ref' = [ref EXCEPT ![loc[t].key] = loc[t].value]
            /\ pc' = [pc EXCEPT ![t] = "idle"]
            /\ loc' = [loc EXCEPT ![t] = NoLocals]
       ELSE /\ pc' = [pc EXCEPT ![t] = "storeLock"]
            /\ UNCHANGED <<syncMap, ref, loc>>
    /\ UNCHANGED <<mu, fatal, calls, exceptMapTasks>>

\* Store: m.mu.Lock()
StoreLock(t) ==
    /\ MuLock(t, "storeLock", "storeLocked")
    /\ UNCHANGED <<loc, syncMap, ref, fatal, calls, exceptMapTasks>>

\* Store: the section under m.mu, m.mu.Unlock() and the return; for a key
\* that is in neither map while the read-only map is not amended, the
\* section up to the loop of dirtyLocked
StoreUnderLock(t) ==
    /\ MapGuard
    /\ pc[t] = "storeLocked"
    /\ IF NeedsDirty(syncMap, loc[t].key) /\ syncMap.dirty.isnil
       THEN /\ syncMap' = MakeDirty(syncMap)
            /\ pc' = [pc EXCEPT ![t] = IF ReadKeys(syncMap) = {} THEN "storeFinish"
                                        ELSE "dirtyLoop"]
            /\ loc' = [loc EXCEPT ![t].visited = {}]
            /\ UNCHANGED <<ref, mu, fatal>>
       ELSE /\ LET M == StoreLocked(syncMap, loc[t].key, loc[t].value) IN
               /\ syncMap' = M
               /\ fatal' = MapFatal(M)
            /\ ref' = [ref EXCEPT ![loc[t].key] = loc[t].value]
            /\ mu' = 0
            /\ pc' = [pc EXCEPT ![t] = "idle"]
            /\ loc' = [loc EXCEPT ![t] = NoLocals]
    /\ UNCHANGED <<calls, exceptMapTasks>>

\* dirtyLocked: one iteration of for k, e := range read.m, in any order
DirtyStep(t) ==
    /\ MapGuard
    /\ pc[t] = "dirtyLoop"
    /\ \E k \in ReadKeys(syncMap) \ loc[t].visited :
        LET e == syncMap.read.m.m[k]
            p == TryExpungeLocked(syncMap.ep[e])
        IN
        /\ syncMap' = [syncMap EXCEPT !.ep[e] = p,
                                      !.dirty.m[k] = IF p = PExpunged THEN NoEntry ELSE e]
        /\ loc' = [loc EXCEPT ![t].visited = @ \cup {k}]
        /\ pc' = [pc EXCEPT ![t] =
                     IF ReadKeys(syncMap) \ (loc[t].visited \cup {k}) # {} THEN "dirtyLoop"
                     ELSE IF loc[t].op = "Store" THEN "storeFinish" ELSE "losFinish"]
    /\ UNCHANGED <<ref, mu, fatal, calls, exceptMapTasks>>

\* Store: m.read.Store(readOnly{m: read.m, amended: true}),
\* m.dirty[key] = newEntry(value), m.mu.Unlock() and the return
StoreFinish(t) ==
    /\ MapGuard
    /\ pc[t] = "storeFinish"
    /\ LET M == StoreNew(Amend(syncMap), loc[t].key, loc[t].value) IN
       /\ syncMap' = M
       /\ fatal' = MapFatal(M)
    /\ ref' = [ref EXCEPT ![loc[t].key] = loc[t].value]
    /\ mu' = 0
    /\ pc' = [pc EXCEPT ![t] = "idle"]
    /\ loc' = [loc EXCEPT ![t] = NoLocals]
    /\ UNCHANGED <<calls, exceptMapTasks>>

\* Load: read, _ := m.read.Load().(readOnly); e, ok := read.m[key]
LoadBegin(t) ==
    /\ MapGuard
    /\ pc[t] = "idle"
    /\ calls < MaxMapCalls
    /\ calls' = calls + 1
    /\ \E k \in Keys :
        LET e == syncMap.read.m.m[k] IN
        /\ loc' = [loc EXCEPT ![t].key = k, ![t].e = e,
                              ![t].expect = IF Quiet(k) THEN ref[k] ELSE Unknown]
        /\ pc' = [pc EXCEPT ![t] = IF e = NoEntry /\ syncMap.read.amended
                                    THEN "loadLock" ELSE "loadEntry"]
    /\ UNCHANGED <<syncMap, ref, mu, fatal, exceptMapTasks>>

\* Load: m.mu.Lock()
LoadLock(t) ==
    /\ MuLock(t, "loadLock", "loadLocked")
    /\ UNCHANGED <<loc, syncMap, ref, fatal, calls, exceptMapTasks>>

\* Load: the section under m.mu and m.mu.Unlock()
LoadUnderLock(t) ==
    /\ MapGuard
    /\ pc[t] = "loadLocked"
    /\ LET k == loc[t].key
           e1 == syncMap.read.m.m[k]
           slow == e1 = NoEntry /\ syncMap.read.amended
       IN
       /\ loc' = [loc EXCEPT ![t].e = IF slow THEN syncMap.dirty.m[k] ELSE e1]
       /\ syncMap' = IF slow THEN MissLocked(syncMap) ELSE syncMap
    /\ mu' = 0
    /\ pc' = [pc EXCEPT ![t] = "loadEntry"]
    /\ UNCHANGED <<ref, fatal, calls, exceptMapTasks>>

\* Load: if !ok { return nil, false }; return e.load()
LoadEntry(t) ==
    /\ MapGuard
    /\ pc[t] = "loadEntry"
    /\ pc' = [pc EXCEPT ![t] = "idle"]
    /\ loc' = [loc EXCEPT ![t] = NoLocals]
    /\ UNCHANGED <<syncMap, ref, mu, fatal, calls, exceptMapTasks>>

\* Range: read, _ := m.read.Load().(readOnly); if read.amended
RangeBegin(t) ==
    /\ MapGuard
    /\ pc[t] = "idle"
    /\ calls < MaxMapCalls
    /\ calls' = calls + 1
    /\ loc' = [loc EXCEPT ![t].read = syncMap.read.m,
                          ![t].must = {k \in Keys : ref[k] # 0}]
    /\ pc' = [pc EXCEPT ![t] = IF syncMap.read.amended THEN "rangeLock" ELSE "rangeNext"]
    /\ UNCHANGED <<syncMap, ref, mu, fatal, exceptMapTasks>>

\* Range: m.mu.Lock()
RangeLock(t) ==
    /\ MuLock(t, "rangeLock", "rangeLocked")
    /\ UNCHANGED <<loc, syncMap, ref, fatal, calls, exceptMapTasks>>

\* Range: the section under m.mu and m.mu.Unlock()
RangeUnderLock(t) ==
    /\ MapGuard
    /\ pc[t] = "rangeLocked"
    /\ LET M == RangePromote(syncMap) IN
       /\ syncMap' = M
       /\ loc' = [loc EXCEPT ![t].read = M.read.m, ![t].slept = syncMap.read.amended]
    /\ mu' = 0
    /\ pc' = [pc EXCEPT ![t] = "rangeNext"]
    /\ UNCHANGED <<ref, fatal, calls, exceptMapTasks>>

\* Range: one iteration of for k, e := range read.m, in any order, with an
\* f that returns true; and the end of the loop
RangeNext(t) ==
    /\ MapGuard
    /\ pc[t] = "rangeNext"
    /\ LET rest == {k \in Keys : loc[t].read.m[k] # NoEntry} \ loc[t].visited IN
       IF rest = {}
       THEN /\ pc' = [pc EXCEPT ![t] = "rangeDone"]
            /\ loc' = loc
       ELSE \E k \in rest :
               /\ pc' = pc
               /\ loc' = [loc EXCEPT ![t].visited = @ \cup {k},
                                     ![t].seen = IF EntryLoad(syncMap.ep[loc[t].read.m[k]]).ok
                                                 THEN @ \cup {k} ELSE @]
    /\ UNCHANGED <<syncMap, ref, mu, fatal, calls, exceptMapTasks>>

\* Range has returned to its caller.
RangeReturn(t) ==
    /\ MapGuard
    /\ pc[t] = "rangeDone"
    /\ pc' = [pc EXCEPT ![t] = "idle"]
    /\ loc' = [loc EXCEPT ![t] = NoLocals]
    /\ UNCHANGED <<syncMap, ref, mu, fatal, calls, exceptMapTasks>>

NextMapTasks ==
    \E t \in MapTasks :
        \/ StoreBegin(t)
        \/ StoreTry(t)
        \/ StoreLock(t)
        \/ StoreUnderLock(t)
        \/ DirtyStep(t)
        \/ StoreFinish(t)
        \/ LoadBegin(t)
        \/ LoadLock(t)
        \/ LoadUnderLock(t)
        \/ LoadEntry(t)
        \/ RangeBegin(t)
        \/ RangeLock(t)
        \/ RangeUnderLock(t)
        \/ RangeNext(t)
        \/ RangeReturn(t)

SpecMapTasks == Init /\ [][NextMapTasks]_vars

(***************************************************************************)
(* Map, with LoadOrStore and Delete called concurrently as well.  ref[k]   *)
(* is the value key k has in the map, 0 if none: a write sets it in the    *)
(* step that makes a Load of k find, or no longer find, its value.         *)
(***************************************************************************)
\* LoadOrStore: read, _ := m.read.Load().(readOnly); e, ok := read.m[key]
LoadOrStoreBegin(t) ==
    /\ MapGuard
    /\ pc[t] = "idle"
    /\ calls < MaxMapCalls
    /\ calls' = calls + 1
    /\ \E k \in Keys, v \in Vals :
        LET e == syncMap.read.m.m[k] IN
        /\ loc' = BeginWrite(t, k, [loc[t] EXCEPT !.key = k, !.value = v, !.e = e,
                                                  !.op = "LoadOrStore"])
        /\ pc' = [pc EXCEPT ![t] = IF e # NoEntry THEN "losTry" ELSE "losLock"]
    /\ UNCHANGED <<syncMap, ref, mu, fatal, exceptMapTasks>>

\* tryLoadOrStore: p := atomic.LoadPointer(&e.p) and the two returns
LoadOrStoreTry(t) ==
    /\ MapGuard
    /\ pc[t] = "losTry"
    /\ LET p == syncMap.ep[loc[t].e] IN
       IF p = PExpunged
       THEN /\ pc' = [pc EXCEPT ![t] = "losLock"]
            /\ loc' = loc
       ELSE IF p # PNil
       THEN /\ pc' = [pc EXCEPT ![t] = "losDone"]
            /\ loc' = [loc EXCEPT ![t].actual = p, ![t].loaded = TRUE]
       ELSE /\ pc' = [pc EXCEPT ![t] = "losCAS"]
            /\ loc' = loc
    /\ UNCHANGED <<syncMap, ref, mu, fatal, calls, exceptMapTasks>>

\* tryLoadOrStore: one iteration of the loop, the CompareAndSwapPointer of
\* nil and, when it fails, the load that follows it
LoadOrStoreCAS(t) ==
    /\ MapGuard
    /\ pc[t] = "losCAS"
    /\ LET e == loc[t].e
           p == syncMap.ep[e]
       IN
       IF p = PNil
       THEN /\ syncMap' = [syncMap EXCEPT !.ep[e] = loc[t].value]
            /\ ref' = [ref EXCEPT ![loc[t].key] = loc[t].value]
            /\ pc' = [pc EXCEPT ![t] = "losDone"]
            /\ loc' = [loc EXCEPT ![t].actual = loc[t].value, ![t].loaded = FALSE]
       ELSE IF p = PExpunged
       THEN /\ pc' = [pc EXCEPT ![t] = "losLock"]
            /\ UNCHANGED <<syncMap, ref, loc>>
       ELSE /\ pc' = [pc EXCEPT ![t] = "losDone"]
            /\ loc' = [loc EXCEPT ![t].actual = p, ![t].loaded = TRUE]
            /\ UNCHANGED <<syncMap, ref>>
    /\ UNCHANGED <<mu, fatal, calls, exceptMapTasks>>

\* LoadOrStore: m.mu.Lock()
LoadOrStoreLock(t) ==
    /\ MuLock(t, "losLock", "losLocked")
    /\ UNCHANGED <<loc, syncMap, ref, fatal, calls, exceptMapTasks>>

\* LoadOrStore: the section under m.mu and m.mu.Unlock(); for a key that is
\* in neither map while the read-only map is not amended, the section up to
\* the loop of dirtyLocked
LoadOrStoreUnderLock(t) ==
    /\ MapGuard
    /\ pc[t] = "losLocked"
    /\ IF NeedsDirty(syncMap, loc[t].key) /\ syncMap.dirty.isnil
       THEN /\ syncMap' = MakeDirty(syncMap)
            /\ pc' = [pc EXCEPT ![t] = IF ReadKeys(syncMap) = {} THEN "losFinish"
                                        ELSE "dirtyLoop"]
            /\ loc' = [loc EXCEPT ![t].visited = {}]
            /\ UNCHANGED <<ref, mu, fatal>>
       ELSE /\ LET r == LoadOrStoreLocked(syncMap, loc[t].key, loc[t].value) IN
               /\ syncMap' = r.M
               /\ fatal' = MapFatal(r.M)
               /\ ref' = IF r.loaded THEN ref ELSE [ref EXCEPT ![loc[t].key] = loc[t].value]
               /\ loc' = [loc EXCEPT ![t].actual = r.value, ![t].loaded = r.loaded]
            /\ mu' = 0
            /\ pc' = [pc EXCEPT ![t] = "losDone"]
    /\ UNCHANGED <<calls, exceptMapTasks>>

\* LoadOrStore: m.read.Store(readOnly{m: read.m, amended: true}),
\* m.dirty[key] = newEntry(value), actual, loaded = value, false and
\* m.mu.Unlock()
LoadOrStoreFinish(t) ==
    /\ MapGuard
    /\ pc[t] = "losFinish"
    /\ LET M == StoreNew(Amend(syncMap), loc[t].key, loc[t].value) IN
       /\ syncMap' = M
       /\ fatal' = MapFatal(M)
    /\ ref' = [ref EXCEPT ![loc[t].key] = loc[t].value]
    /\ loc' = [loc EXCEPT ![t].actual = loc[t].value, ![t].loaded = FALSE]
    /\ mu' = 0
    /\ pc' = [pc EXCEPT ![t] = "losDone"]
    /\ UNCHANGED <<calls, exceptMapTasks>>

\* LoadOrStore: return actual, loaded
LoadOrStoreReturn(t) ==
    /\ MapGuard
    /\ pc[t] = "losDone"
    /\ pc' = [pc EXCEPT ![t] = "idle"]
    /\ loc' = [loc EXCEPT ![t] = NoLocals]
    /\ UNCHANGED <<syncMap, ref, mu, fatal, calls, exceptMapTasks>>

\* LoadAndDelete: read, _ := m.read.Load().(readOnly); e, ok := read.m[key]
DeleteBegin(t) ==
    /\ MapGuard
    /\ pc[t] = "idle"
    /\ calls < MaxMapCalls
    /\ calls' = calls + 1
    /\ \E k \in Keys :
        LET e == syncMap.read.m.m[k] IN
        /\ loc' = BeginWrite(t, k, [loc[t] EXCEPT !.key = k, !.e = e, !.op = "Delete"])
        /\ pc' = [pc EXCEPT ![t] = IF e = NoEntry /\ syncMap.read.amended
                                    THEN "deleteLock" ELSE "deleteEntry"]
    /\ UNCHANGED <<syncMap, ref, mu, fatal, exceptMapTasks>>

\* LoadAndDelete: m.mu.Lock()
DeleteLock(t) ==
    /\ MuLock(t, "deleteLock", "deleteLocked")
    /\ UNCHANGED <<loc, syncMap, ref, fatal, calls, exceptMapTasks>>

\* LoadAndDelete: the section under m.mu and m.mu.Unlock(); a key deleted
\* from the dirty map is no longer in the map
DeleteUnderLock(t) ==
    /\ MapGuard
    /\ pc[t] = "deleteLocked"
    /\ LET k == loc[t].key
           e1 == syncMap.read.m.m[k]
           slow == e1 = NoEntry /\ syncMap.read.amended
       IN
       /\ loc' = [loc EXCEPT ![t].e = IF slow THEN syncMap.dirty.m[k] ELSE e1]
       /\ syncMap' = IF slow
                     THEN MissLocked([syncMap EXCEPT !.dirty.m[k] = NoEntry])
                     ELSE syncMap
       /\ ref' = IF slow THEN [ref EXCEPT ![k] = 0] ELSE ref
    /\ mu' = 0
    /\ pc' = [pc EXCEPT ![t] = "deleteEntry"]
    /\ UNCHANGED <<fatal, calls, exceptMapTasks>>

\* LoadAndDelete: if ok { return e.delete() }; return nil, false
DeleteEntry(t) ==
    /\ MapGuard
    /\ pc[t] = "deleteEntry"
    /\ LET k == loc[t].key
           e == loc[t].e
       IN
       IF e # NoEntry
       THEN LET r == EntryDelete(syncMap, e) IN
            /\ syncMap' = r.M
            /\ ref' = IF r.loaded /\ (syncMap.read.m.m[k] = e \/ syncMap.dirty.m[k] = e)
                      THEN [ref EXCEPT ![k] = 0] ELSE ref
       ELSE UNCHANGED <<syncMap, ref>>
    /\ pc' = [pc EXCEPT ![t] = "idle"]
    /\ loc' = [loc EXCEPT ![t] = NoLocals]
    /\ UNCHANGED <<mu, fatal, calls, exceptMapTasks>>

\* The tasks that call Load, Store, LoadOrStore and Delete
MapWriters == 1..NMapWriters

NextMapWrites ==
    \E t \in MapWriters :
        \/ StoreBegin(t)
        \/ StoreTry(t)
        \/ StoreLock(t)
        \/ StoreUnderLock(t)
        \/ DirtyStep(t)
        \/ StoreFinish(t)
        \/ LoadBegin(t)
        \/ LoadLock(t)
        \/ LoadUnderLock(t)
        \/ LoadEntry(t)
        \/ LoadOrStoreBegin(t)
        \/ LoadOrStoreTry(t)
        \/ LoadOrStoreCAS(t)
        \/ LoadOrStoreLock(t)
        \/ LoadOrStoreUnderLock(t)
        \/ LoadOrStoreFinish(t)
        \/ LoadOrStoreReturn(t)
        \/ DeleteBegin(t)
        \/ DeleteLock(t)
        \/ DeleteUnderLock(t)
        \/ DeleteEntry(t)

SpecMapWrites == Init /\ [][NextMapWrites]_vars

(***************************************************************************)
(* Map: properties                                                         *)
(***************************************************************************)
\* C16: a Range calls f for every key whose Store had returned when the
\* Range was called, whatever Store, Load and Range calls of other tasks
\* go on meanwhile and whether or not they create or promote the dirty map;
\* and every such key is in the map the Range iterates over.
MapRangeSeesStores ==
    \A t \in MapTasks :
        /\ pc[t] = "rangeDone" => loc[t].must \subseteq loc[t].seen
        /\ pc[t] = "rangeNext" =>
               \A k \in loc[t].must :
                   /\ loc[t].read.m[k] # NoEntry
                   /\ EntryLoad(syncMap.ep[loc[t].read.m[k]]).ok

\* A Range that promoted the dirty map has called f for two keys stored
\* before it, while the Store of another task waits for m.mu.
MapRangePromoted ==
    \E t, u \in MapTasks :
        /\ pc[t] = "rangeDone"
        /\ loc[t].slept
        /\ Cardinality(loc[t].must) = 2
        /\ pc[u] = "storeLock"

\* What a plain map answers for key k.
RefLoad(k) == [value |-> ref[k], ok |-> ref[k] # 0]

\* C6: a Load of any key answers as the plain map does, in every state a
\* sequence of operations of one task reaches, and so did the last Load.
MapLoadAgrees ==
    /\ \A k \in Keys :
          LET r == Load(syncMap, k) IN [value |-> r.value, ok |-> r.ok] = RefLoad(k)
    /\ mres.op = "Load" => [value |-> mres.value, ok |-> mres.ok] = RefLoad(mres.key)

\* A Load has found a value stored through an entry that had been expunged
\* and whose dirty map has since been promoted, while another key is deleted.
MapLoadAfterPromotion ==
    /\ mres.op = "Load" /\ mres.ok
    /\ ~syncMap.read.amended
    /\ \E k \in Keys : syncMap.read.m.m[k] # NoEntry /\ syncMap.ep[syncMap.read.m.m[k]] = PNil

(***************************************************************************)
(* Pool, used by one task that may run on any shard.  New is not set.      *)
(***************************************************************************)
\* poolChain: pushHead and popHead work the head, popTail the tail.
PushHead(c, x) == <<x>> \o c
PopHead(c) == IF c = <<>> THEN [x |-> NoObj, c |-> c] ELSE [x |-> Head(c), c |-> Tail(c)]
\* A popTail that takes the head of the chain.
PopTailAtHead(c) == PopHead(c)

PopTail(c) ==
    IF c = <<>> THEN [x |-> NoObj, c |-> c]
    ELSE [x |-> c[Len(c)], c |-> SubSeq(c, 1, Len(c) - 1)]

\* pin without its fast path: every call goes through pinSlow
PinFastNever(P, pid) == FALSE

\* pin: the poolLocal array read by the pinned task covers shard pid
PinFast(P, pid) == pid < P.localSize

\* pin and pinSlow: the Pool and allPools once the task is pinned to shard pid
Pin(P, all, p, pid) ==
    IF PinFast(P, pid)
    THEN [P |-> P, all |-> all]
    ELSE [P |-> [P EXCEPT !.local = NewArray, !.localSize = NShards],
          all |-> IF P.local.isnil THEN Append(all, p) ELSE all]

\* Put, pinned to shard pid, x not nil
Put(P, pid, x) ==
    IF P.local.a[pid].private = NoObj
    THEN [P EXCEPT !.local.a[pid].private = x]
    ELSE [P EXCEPT !.local.a[pid].shared = PushHead(@, x)]

\* The first shard, in the order idx[1], idx[2], ..., with a non-empty shared
\* chain in array arr; 0 if there is none.
RECURSIVE FirstNonEmpty(_, _, _)
FirstNonEmpty(arr, idx, i) ==
    IF i > Len(idx) THEN 0
    ELSE IF arr.a[idx[i]].shared # <<>> THEN i
    ELSE FirstNonEmpty(arr, idx, i + 1)

\* getSlow: the order in which the primary caches are searched
StealOrder(pid, size) == [i \in 1..size |-> (pid + (i - 1) + 1) % size]

\* getSlow: the order in which the shared chains of the victim cache are searched
VictimOrder(pid, size) == [i \in 1..size |-> (pid + (i - 1)) % size]

\* The search of the victim cache without the look at the private slot.
GetVictimSkippingPrivate(P, pid) ==
    LET size == P.victimSize IN
    IF pid >= size
    THEN [P |-> P, x |-> NoObj]
    ELSE LET idx == VictimOrder(pid, size)
             i == FirstNonEmpty(P.victim, idx, 1)
         IN  IF i # 0
             THEN LET r == PopTail(P.victim.a[idx[i]].shared) IN
                  [P |-> [P EXCEPT !.victim.a[idx[i]].shared = r.c], x |-> r.x]
             ELSE [P |-> [P EXCEPT !.victimSize = 0], x |-> NoObj]

\* A search of the victim cache that looks at the chain of shard pid only.
GetVictimOwnChainOnly(P, pid) ==
    LET size == P.victimSize IN
    IF pid >= size
    THEN [P |-> P, x |-> NoObj]
    ELSE IF P.victim.a[pid].private # NoObj
    THEN [P |-> [P EXCEPT !.victim.a[pid].private = NoObj],
          x |-> P.victim.a[pid].private]
    ELSE LET r == PopTail(P.victim.a[pid].shared) IN
         IF r.x # NoObj
         THEN [P |-> [P EXCEPT !.victim.a[pid].shared = r.c], x |-> r.x]
         ELSE [P |-> [P EXCEPT !.victimSize = 0], x |-> NoObj]

\* getSlow: the search of the victim cache
GetVictim(P, pid) ==
    LET size == P.victimSize IN
    IF pid >= size
    THEN [P |-> P, x |-> NoObj]
    ELSE IF P.victim.a[pid].private # NoObj
    THEN [P |-> [P EXCEPT !.victim.a[pid].private = NoObj],
          x |-> P.victim.a[pid].private]
    ELSE LET idx == VictimOrder(pid, size)
             i == FirstNonEmpty(P.victim, idx, 1)
         IN  IF i # 0
             THEN LET r == PopTail(P.victim.a[idx[i]].shared) IN
                  [P |-> [P EXCEPT !.victim.a[idx[i]].shared = r.c], x |-> r.x]
             ELSE [P |-> [P EXCEPT !.victimSize = 0], x |-> NoObj]

\* getSlow
GetSlow(P, pid) ==
    LET size == P.localSize
        idx == StealOrder(pid, size)
        i == FirstNonEmpty(P.local, idx, 1)
    IN  IF i # 0
        THEN LET r == PopTail(P.local.a[idx[i]].shared) IN
             [P |-> [P EXCEPT !.local.a[idx[i]].shared = r.c], x |-> r.x]
        ELSE GetVictim(P, pid)

\* Get that leaves the object in the private slot.
GetKeepingPrivate(P, pid) ==
    LET l == P.local.a[pid] IN
    IF l.private # NoObj
    THEN [P |-> P, x |-> l.private]
    ELSE LET r == PopHead(l.shared) IN
         IF r.x # NoObj
         THEN [P |-> [P EXCEPT !.local.a[pid].shared = r.c], x |-> r.x]
         ELSE GetSlow(P, pid)

\* Get, pinned to shard pid
Get(P, pid) ==
    LET l == P.local.a[pid] IN
    IF l.private # NoObj
    THEN [P |-> [P EXCEPT !.local.a[pid].private = NoObj], x |-> l.private]
    ELSE LET r == PopHead(l.shared) IN
         IF r.x # NoObj
         THEN [P |-> [P EXCEPT !.local.a[pid].shared = r.c], x |-> r.x]
         ELSE GetSlow(P, pid)

\* A Pool whose New is never called.
NewNever(P) == FALSE

\* Get: p.New != nil
NewSet(P) == P.New

\* Get, after the unpin: if x == nil && p.New != nil { x = p.New() }
WithNew(P, r) == IF r.x = NoObj /\ NewSet(P) THEN [r EXCEPT !.x = Fresh] ELSE r

\* A cleanup that drops no victim cache.
KeepVictims(ps, old) == ps

\* poolCleanup: drop the victim caches of oldPools
DropVictims(ps, old) ==
    [p \in Pools |->
        IF \E i \in 1..Len(old) : old[i] = p
        THEN [ps[p] EXCEPT !.victim = NilArray, !.victimSize = 0]
        ELSE ps[p]]

\* poolCleanup: move the primary caches of allPools to the victim caches
MoveToVictim(ps, all) ==
    [p \in Pools |->
        IF \E i \in 1..Len(all) : all[i] = p
        THEN [ps[p] EXCEPT !.victim = ps[p].local, !.victimSize = ps[p].localSize,
                           !.local = NilArray, !.localSize = 0]
        ELSE ps[p]]

\* Where object x is in the primary cache of shard pid of Pool P: "private",
\* "shared" or "".
SlotOf(P, pid, x) ==
    IF P.local.a[pid].private = x THEN "private"
    ELSE IF \E i \in 1..Len(P.local.a[pid].shared) : P.local.a[pid].shared[i] = x
    THEN "shared" ELSE ""

\* Where object x is in the victim cache of shard pid of Pool P: "private",
\* "shared" or "".
VictimSlotOf(P, pid, x) ==
    IF x \notin Objs THEN ""
    ELSE IF P.victim.a[pid].private = x THEN "private"
    ELSE IF \E i \in 1..Len(P.victim.a[pid].shared) : P.victim.a[pid].shared[i] = x
    THEN "shared" ELSE ""

\* p.Put(x) on shard pid, x an object the task holds
PoolPut ==
    /\ calls < MaxPoolOps
    /\ calls' = calls + 1
    /\ \E p \in Pools, pid \in Shards, x \in owned :
        LET pinned == Pin(pools[p], allPools, p, pid)
            P == Put(pinned.P, pid, x)
        IN
        /\ pools' = [pools EXCEPT ![p] = P]
        /\ allPools' = pinned.all
        /\ owned' = owned \ {x}
        /\ age' = [age EXCEPT ![x] = 0]
        /\ lastPut' = [p |-> p, pid |-> pid, x |-> x, slot |-> SlotOf(P, pid, x),
                       cycles |-> 0]
        /\ pres' = [op |-> "Put", p |-> p, pid |-> pid, x |-> x, put |-> NoPut, vslot |-> ""]
    /\ UNCHANGED <<oldPools, exceptPool>>

\* p.Get() on shard pid
PoolGet ==
    /\ calls < MaxPoolOps
    /\ calls' = calls + 1
    /\ \E p \in Pools, pid \in Shards :
        LET pinned == Pin(pools[p], allPools, p, pid)
            r == WithNew(pinned.P, Get(pinned.P, pid))
        IN
        /\ pools' = [pools EXCEPT ![p] = r.P]
        /\ allPools' = pinned.all
        /\ owned' = IF r.x \in Objs THEN owned \cup {r.x} ELSE owned
        /\ age' = [x \in Objs |-> IF x = r.x THEN 0 ELSE age[x]]
        /\ pres' = [op |-> "Get", p |-> p, pid |-> pid, x |-> r.x, put |-> lastPut,
                    vslot |-> VictimSlotOf(pinned.P, pid, r.x)]
    /\ lastPut' = NoPut
    /\ UNCHANGED <<oldPools, exceptPool>>

\* poolCleanup, at the start of a collection cycle
PoolCleanup ==
    /\ pools' = MoveToVictim(DropVictims(pools, oldPools), allPools)
    /\ oldPools' = allPools
    /\ allPools' = <<>>
    /\ age' = [x \in Objs |-> IF x \in owned \/ age[x] = 2 THEN age[x] ELSE age[x] + 1]
    /\ lastPut' = IF lastPut.x = NoObj \/ lastPut.cycles = 2 THEN lastPut
                  ELSE [lastPut EXCEPT !.cycles = @ + 1]
    /\ pres' = [op |-> "Cleanup", p |-> 0, pid |-> 0, x |-> NoObj, put |-> NoPut, vslot |-> ""]
    /\ UNCHANGED <<owned, calls, exceptPool>>

NextPool ==
    \/ PoolPut
    \/ PoolGet
    \/ PoolCleanup

SpecPool == Init /\ [][NextPool]_vars

\* The program sets p.New
PoolSetNew ==
    /\ \E p \in Pools :
        /\ ~pools[p].New
        /\ pools' = [pools EXCEPT ![p].New = TRUE]
    /\ UNCHANGED <<allPools, oldPools, owned, age, lastPut, pres, calls, exceptPool>>

NextPoolNew ==
    \/ PoolPut
    \/ PoolGet
    \/ PoolCleanup
    \/ PoolSetNew

SpecPoolNew == Init /\ [][NextPoolNew]_vars

(***************************************************************************)
(* Pool properties                                                         *)
(***************************************************************************)
\* Object x is in array arr.
InArray(arr, x) ==
    \E s \in Shards :
        \/ arr.a[s].private = x
        \/ \E i \in 1..Len(arr.a[s].shared) : arr.a[s].shared[i] = x

\* Pool P holds object x, in its primary or its victim cache.
Holds(P, x) == InArray(P.local, x) \/ InArray(P.victim, x)

\* The last operation was a Get on the Pool of the latest Put(x), n cycles
\* and nothing else after that Put.
GetAfterPut(n) ==
    /\ pres.op = "Get"
    /\ pres.put.x # NoObj
    /\ pres.put.cycles = n
    /\ pres.put.p = pres.p

\* That Get ran on the shard of the Put, and the Put found the private slot free.
SameShardPrivate == pres.put.pid = pres.pid /\ pres.put.slot = "private"

\* That Get returned x and the Pool holds x no more.
ReturnedAndRemoved == pres.x = pres.put.x /\ ~Holds(pools[pres.p], pres.put.x)

\* C7: a Get that directly follows Put(x) on the same Pool returns x and
\* removes it from the Pool (the statement as written, for any shard and
\* any content of the Pool).
PoolRoundTrip == GetAfterPut(0) => ReturnedAndRemoved

\* C7: a Get that directly follows Put(x) on the same Pool and runs on the
\* same shard returns x and removes it from the Pool, provided the private
\* slot of that shard was empty when Put was called.
PoolRoundTripPrivate == (GetAfterPut(0) /\ SameShardPrivate) => ReturnedAndRemoved

\* A Get took x back from the private slot while the Pool holds another object.
PoolRoundTripHit ==
    /\ GetAfterPut(0)
    /\ SameShardPrivate
    /\ pres.x = pres.put.x
    /\ \E y \in Objs : Holds(pools[pres.p], y)

\* C8: after Put(x), exactly one collection cycle and nothing else, a Get on
\* the same Pool returns x, and x is then gone from the Pool (the statement
\* as written, for any shard and any content of the Pool).
PoolSurvivesOneCycle == GetAfterPut(1) => ReturnedAndRemoved

\* C8: after Put(x) into the empty private slot of a shard, exactly one
\* collection cycle and nothing else, a Get on the same Pool that runs on
\* that shard returns x from the victim generation, and x is then gone from
\* the Pool, so that no second Get returns it.
PoolSurvivesOneCyclePrivate == (GetAfterPut(1) /\ SameShardPrivate) => ReturnedAndRemoved

\* A Get took x back from the victim cache, one cycle after the Put.
PoolVictimHit ==
    /\ GetAfterPut(1)
    /\ SameShardPrivate
    /\ pres.x = pres.put.x
    /\ pres.x # NoObj

\* C9: a collection cycle turns the whole primary cache of every Pool into
\* its victim cache, empties the primary cache and drops the previous victim
\* cache; and no object the task got back from a Pool had been through two
\* cycles since it was Put.
PoolGenerations ==
    [][/\ PoolCleanup =>
            \A p \in Pools :
                /\ pools'[p].victim = pools[p].local
                /\ pools'[p].victimSize = pools[p].localSize
                /\ pools'[p].local = NilArray
                /\ pools'[p].localSize = 0
       /\ (PoolGet /\ pres'.x # NoObj) => age[pres'.x] < 2]_vars

\* A Get on the shard of Put(x), two cycles and nothing else after the Put
\* into the private slot, returned nothing.
PoolEvicted ==
    /\ GetAfterPut(2)
    /\ SameShardPrivate
    /\ pres.x = NoObj
    /\ age[pres.put.x] = 2
    /\ pres.put.x \notin owned
    /\ ~Holds(pools[pres.p], pres.put.x)

(***************************************************************************)
(* Cond.  c.L is a Locker: L is the task that holds it.  The notify list   *)
(* gives every Wait a ticket (wait is the next ticket), notify is the      *)
(* next ticket to be notified and list holds the parked tasks, oldest      *)
(* first.  The Cond is used in place, so copyChecker.check never panics.   *)
(***************************************************************************)
\* runtime_notifyListAdd: the ticket is the old value of l.wait
NotifyListAdd(l) == [l EXCEPT !.wait = @ + 1]

\* A runtime_notifyListWait that parks whatever its ticket.
NeverNotified(l, tk) == FALSE

\* runtime_notifyListWait returns at once when the ticket was notified
\* already.
AlreadyNotified(l, tk) == tk < l.notify

\* The parked tasks that hold ticket tk.
Holders(l, tk) == {u \in CondTasks : \E i \in 1..Len(l.list) : l.list[i] = u /\ loc[u].ticket = tk}

\* The list without the tasks in S.
Unlinked(q, S) == SelectSeq(q, LAMBDA u : u \notin S)

\* A runtime_notifyListNotifyOne that notifies nobody.
NotifyListNotifyNone(l) == [l |-> l, ready |-> {}]

\* runtime_notifyListNotifyOne: the oldest ticket not yet notified is
\* notified, and its holder made runnable if it has parked.
NotifyListNotifyOne(l) ==
    IF l.wait = l.notify
    THEN [l |-> l, ready |-> {}]
    ELSE [l |-> [l EXCEPT !.notify = @ + 1, !.list = Unlinked(@, Holders(l, l.notify))],
          ready |-> Holders(l, l.notify)]

\* runtime_notifyListNotifyAll: every ticket given out is notified, and
\* every parked task made runnable.
NotifyListNotifyAll(l) ==
    IF l.wait = l.notify
    THEN [l |-> l, ready |-> {}]
    ELSE [l |-> [l EXCEPT !.notify = l.wait, !.list = <<>>],
          ready |-> {l.list[i] : i \in 1..Len(l.list)}]

\* Task t has taken a ticket and has not found it notified yet.
Registered(t) == pc[t] \in {"condUnlock", "condListWait", "condParked"}

\* The caller's c.L.Lock()
CondLock(t) ==
    /\ pc[t] = "idle"
    /\ L = 0
    /\ L' = t
    /\ pc' = [pc EXCEPT ![t] = "locked"]
    /\ UNCHANGED <<loc, notify, fatal, calls, exceptCond>>

\* The caller's c.L.Unlock()
CondUnlock(t) ==
    /\ pc[t] = "locked"
    /\ L' = 0
    /\ pc' = [pc EXCEPT ![t] = "idle"]
    /\ UNCHANGED <<loc, notify, fatal, calls, exceptCond>>

\* Wait: t := runtime_notifyListAdd(&c.notify)
CondWait(t) ==
    /\ pc[t] = "locked"
    /\ calls < MaxCondOps
    /\ calls' = calls + 1
    /\ notify' = NotifyListAdd(notify)
    /\ loc' = [loc EXCEPT ![t].ticket = notify.wait, ![t].signalled = ""]
    /\ pc' = [pc EXCEPT ![t] = "condUnlock"]
    /\ UNCHANGED <<L, fatal, exceptCond>>

\* Wait: c.L.Unlock()
CondWaitUnlock(t) ==
    /\ pc[t] = "condUnlock"
    /\ L' = 0
    /\ pc' = [pc EXCEPT ![t] = "condListWait"]
    /\ UNCHANGED <<loc, notify, fatal, calls, exceptCond>>

\* Wait: runtime_notifyListWait(&c.notify, t)
CondListWait(t) ==
    /\ pc[t] = "condListWait"
    /\ IF AlreadyNotified(notify, loc[t].ticket)
       THEN /\ pc' = [pc EXCEPT ![t] = "condRelock"]
            /\ notify' = notify
            /\ loc' = loc
       ELSE /\ pc' = [pc EXCEPT ![t] = "condParked"]
            /\ notify' = [notify EXCEPT !.list = Append(@, t)]
            /\ loc' = [loc EXCEPT ![t].slept = TRUE]
    /\ UNCHANGED <<L, fatal, calls, exceptCond>>

\* Wait: c.L.Lock()
CondRelock(t) ==
    /\ pc[t] = "condRelock"
    /\ L = 0
    /\ L' = t
    /\ pc' = [pc EXCEPT ![t] = "condReturn"]
    /\ UNCHANGED <<loc, notify, fatal, calls, exceptCond>>

\* Wait has returned to its caller, which holds c.L.
CondWaitReturn(t) ==
    /\ pc[t] = "condReturn"
    /\ pc' = [pc EXCEPT ![t] = "locked"]
    /\ loc' = [loc EXCEPT ![t] = NoLocals]
    /\ UNCHANGED <<L, notify, fatal, calls, exceptCond>>

\* The tasks made runnable continue after runtime_notifyListWait; the tasks
\* that hold a ticket learn that Signal or Broadcast has been called.
Readied(p, S) == [u \in Tasks |-> IF u \in S THEN "condRelock" ELSE p[u]]
NoteSignal(l) ==
    [u \in Tasks |-> IF u \in CondTasks /\ Registered(u) /\ l[u].signalled = ""
                     THEN [l[u] EXCEPT !.signalled = pc[u]] ELSE l[u]]

\* Signal: runtime_notifyListNotifyOne(&c.notify), by a task that holds c.L
\* or by one that does not
Signal(t) ==
    /\ pc[t] \in {"idle", "locked"}
    /\ calls < MaxCondOps
    /\ calls' = calls + 1
    /\ LET r == NotifyListNotifyOne(notify) IN
       /\ notify' = r.l
       /\ pc' = Readied(pc, r.ready)
    /\ loc' = NoteSignal(loc)
    /\ UNCHANGED <<L, fatal, exceptCond>>

\* Broadcast: runtime_notifyListNotifyAll(&c.notify), by a task that holds
\* c.L or by one that does not
Broadcast(t) ==
    /\ pc[t] \in {"idle", "locked"}
    /\ calls < MaxCondOps
    /\ calls' = calls + 1
    /\ LET r == NotifyListNotifyAll(notify) IN
       /\ notify' = r.l
       /\ pc' = Readied(pc, r.ready)
    /\ loc' = NoteSignal(loc)
    /\ UNCHANGED <<L, fatal, exceptCond>>

NextCond ==
    \E t \in CondTasks :
        \/ CondLock(t)
        \/ CondUnlock(t)
        \/ CondWait(t)
        \/ CondWaitUnlock(t)
        \/ CondListWait(t)
        \/ CondRelock(t)
        \/ CondWaitReturn(t)
        \/ Signal(t)
        \/ Broadcast(t)

SpecCond == Init /\ [][NextCond]_vars

(***************************************************************************)
(* Cond: properties                                                        *)
(***************************************************************************)
\* The tasks whose ticket has not been notified.
Unnotified == {t \in CondTasks : Registered(t) /\ loc[t].ticket >= notify.notify}

\* C17: a Wait takes its ticket before it releases c.L, so no task is
\* parked, or stays registered, with a ticket that has been notified: a
\* Signal or Broadcast that comes after the release of c.L and before the
\* task parks is not lost, for the task finds its ticket notified and does
\* not park.  Wait returns only when its task holds c.L again, and only one
\* task holds c.L.
CondNoLostWakeup ==
    /\ \A t \in CondTasks : pc[t] = "condParked" => loc[t].ticket >= notify.notify
    /\ \A t \in CondTasks : pc[t] = "condParked" <=> \E i \in 1..Len(notify.list) : notify.list[i] = t
    /\ \A t \in CondTasks : pc[t] = "condUnlock" => L = t
    /\ \A t \in CondTasks : pc[t] \in {"condReturn", "locked"} => L = t

\* A Wait that had released c.L and not yet parked when its ticket was
\* notified has returned without parking.
CondWokenBeforeParking ==
    \E t \in CondTasks :
        /\ pc[t] = "condReturn"
        /\ ~loc[t].slept
        /\ loc[t].signalled = "condListWait"

\* C18: Signal notifies exactly one of the tasks that hold a ticket not yet
\* notified if there is one and none otherwise, Broadcast notifies all of
\* them, in both cases whether the caller holds c.L or not; and a Wait
\* goes on to return only when its ticket has been notified by a Signal or
\* Broadcast called after it took the ticket.
CondWakeAccounting ==
    /\ [][\A t \in CondTasks :
              /\ Signal(t) =>
                    /\ Unnotified # {} => Cardinality(Unnotified') = Cardinality(Unnotified) - 1
                    /\ Unnotified = {} => Unnotified' = {}
                    /\ Unnotified' \subseteq Unnotified
                    /\ \A u \in CondTasks : pc'[u] = "condParked" => u \in Unnotified'
              /\ Broadcast(t) =>
                    /\ Unnotified' = {}
                    /\ \A u \in CondTasks : pc'[u] # "condParked"]_vars
    /\ [](\A t \in CondTasks :
              pc[t] \in {"condRelock", "condReturn"} =>
                  loc[t].signalled # "" /\ loc[t].ticket < notify.notify)

\* While task u held c.L inside Wait, with its ticket taken, a Signal by
\* another task has woken the parked task t and left u's ticket for a
\* later Signal.
CondSignalWokeOne ==
    \E t, u \in CondTasks :
        /\ pc[t] = "condRelock" /\ loc[t].slept
        /\ pc[u] = "condUnlock" /\ loc[u].signalled = "condUnlock"
        /\ L = u
        /\ notify.notify = 1
        /\ notify.wait = 2

(***************************************************************************)
(* Pool, used by several tasks at once.  A pinned task owns its shard: no  *)
(* two pinned tasks run on the same shard, and poolCleanup runs with the   *)
(* world stopped, that is with no task pinned.  New is not set.            *)
(***************************************************************************)
Pinned == {t \in PoolTasks : pc[t] = "pinned"}
FreeShards(t) == Shards \ {loc[u].pid : u \in Pinned \ {t}}

\* pin: runtime_procPin, then the array if it covers the shard, else
\* pinSlow, which unpins before it asks for allPoolsMu
PinStep(t, l) ==
    \E pid \in FreeShards(t) :
        /\ loc' = [loc EXCEPT ![t] = [l EXCEPT !.pid = pid, !.size = pools[l.p].localSize]]
        /\ pc' = [pc EXCEPT ![t] = IF PinFast(pools[l.p], pid) THEN "pinned" ELSE "pinLock"]

\* p.Put(x) up to the end of pin, x an object the task holds
PoolCallPut(t) ==
    /\ pc[t] = "idle"
    /\ calls < MaxPoolCalls
    /\ calls' = calls + 1
    /\ \E p \in Pools, x \in owned :
        /\ owned' = owned \ {x}
        /\ PinStep(t, [NoLocals EXCEPT !.op = "Put", !.p = p, !.x = x])
    /\ UNCHANGED <<pools, allPools, oldPools, allPoolsMu, exceptPoolTasks>>

\* p.Get() up to the end of pin
PoolCallGet(t) ==
    /\ pc[t] = "idle"
    /\ calls < MaxPoolCalls
    /\ calls' = calls + 1
    /\ \E p \in Pools : PinStep(t, [NoLocals EXCEPT !.op = "Get", !.p = p])
    /\ UNCHANGED <<pools, allPools, oldPools, owned, allPoolsMu, exceptPoolTasks>>

\* pinSlow: allPoolsMu.Lock()
PinLock(t) ==
    /\ pc[t] = "pinLock"
    /\ allPoolsMu = 0
    /\ allPoolsMu' = t
    /\ pc' = [pc EXCEPT ![t] = "pinSlow"]
    /\ UNCHANGED <<loc, calls, pools, allPools, oldPools, owned, exceptPoolTasks>>

\* pinSlow under allPoolsMu: pin again, re-check the array, allocate it if
\* it still does not cover the shard, and unlock on return
PinSlowStep(t) ==
    /\ pc[t] = "pinSlow"
    /\ allPoolsMu = t
    /\ \E pid \in FreeShards(t) :
        LET pinned == Pin(pools[loc[t].p], allPools, loc[t].p, pid) IN
        /\ pools' = [pools EXCEPT ![loc[t].p] = pinned.P]
        /\ allPools' = pinned.all
        /\ loc' = [loc EXCEPT ![t].pid = pid]
    /\ allPoolsMu' = 0
    /\ pc' = [pc EXCEPT ![t] = "pinned"]
    /\ UNCHANGED <<calls, oldPools, owned, exceptPoolTasks>>

\* Put, pinned: store x and unpin
PoolPutBody(t) ==
    /\ pc[t] = "pinned"
    /\ loc[t].op = "Put"
    /\ pools' = [pools EXCEPT ![loc[t].p] = Put(@, loc[t].pid, loc[t].x)]
    /\ pc' = [pc EXCEPT ![t] = "idle"]
    /\ loc' = [loc EXCEPT ![t] = NoLocals]
    /\ UNCHANGED <<calls, allPools, oldPools, owned, allPoolsMu, exceptPoolTasks>>

\* Get, pinned: search, unpin and return
PoolGetBody(t) ==
    /\ pc[t] = "pinned"
    /\ loc[t].op = "Get"
    /\ LET r == WithNew(pools[loc[t].p], Get(pools[loc[t].p], loc[t].pid)) IN
        /\ pools' = [pools EXCEPT ![loc[t].p] = r.P]
        /\ owned' = IF r.x \in Objs THEN owned \cup {r.x} ELSE owned
    /\ pc' = [pc EXCEPT ![t] = "idle"]
    /\ loc' = [loc EXCEPT ![t] = NoLocals]
    /\ UNCHANGED <<calls, allPools, oldPools, allPoolsMu, exceptPoolTasks>>

\* poolCleanup, with the world stopped
PoolTasksCleanup ==
    /\ Pinned = {}
    /\ pools' = MoveToVictim(DropVictims(pools, oldPools), allPools)
    /\ oldPools' = allPools
    /\ allPools' = <<>>
    /\ UNCHANGED <<pc, loc, calls, owned, allPoolsMu, exceptPoolTasks>>

NextPoolTasks ==
    \/ \E t \in PoolTasks : PoolCallPut(t)
    \/ \E t \in PoolTasks : PoolCallGet(t)
    \/ \E t \in PoolTasks : PinLock(t)
    \/ \E t \in PoolTasks : PinSlowStep(t)
    \/ \E t \in PoolTasks : PoolPutBody(t)
    \/ \E t \in PoolTasks : PoolGetBody(t)
    \/ PoolTasksCleanup

SpecPoolTasks == Init /\ [][NextPoolTasks]_vars

\* A task inside Get or Put that waits for a lock
PoolWaiting(t) == pc[t] = "pinLock" /\ allPoolsMu # 0

\* C24: no task inside Pool.Get or Pool.Put ever waits for a lock or parks
PoolNeverWaits == \A t \in PoolTasks : ~PoolWaiting(t)

\* C24, amended: a task inside Get or Put waits only for allPoolsMu in pinSlow,
\* which it enters only when the array it read did not cover its shard; with
\* the lock free, under the lock, and once pinned, its next step is enabled
PoolWaitsOnlyInPinSlow ==
    \A t \in PoolTasks :
        /\ pc[t] \in {"pinLock", "pinSlow"} => loc[t].size <= loc[t].pid
        /\ pc[t] = "pinLock" /\ allPoolsMu = 0 => ENABLED PinLock(t)
        /\ pc[t] = "pinSlow" => allPoolsMu = t /\ ENABLED PinSlowStep(t)
        /\ pc[t] = "pinned" => ENABLED (PoolPutBody(t) \/ PoolGetBody(t))

\* A task inside Get or Put waits for allPoolsMu while another task holds it
\* in pinSlow
PoolWaitsForAllPoolsMu ==
    \E t, u \in PoolTasks :
        /\ t # u
        /\ PoolWaiting(t)
        /\ pc[u] = "pinSlow"
        /\ allPoolsMu = u

(***************************************************************************)
(* RWMutex: recursive read-locking                                         *)
(***************************************************************************)
\* Task t holds a read lock and is parked in a second RLock behind writer w,
\* and w is parked in Lock waiting for the readers to leave.
RWRecursiveStuck(t, w) ==
    /\ t # w
    /\ pc[t] = "parked"
    /\ loc[t].s = "readerSem"
    /\ loc[t].depth = 1
    /\ loc[t].blockedBy = w
    /\ pc[w] = "parked"
    /\ loc[w].s = "writerSem"

\* C25: once a task that holds a read lock waits in a second RLock behind a
\* writer that waits in Lock for the readers, neither of the two ever takes
\* another step: the reader waits for the writer's Unlock and the writer for
\* the reader's RUnlock.
RWRecursiveReadDeadlock ==
    [][\A t, w \in RWTasks : RWRecursiveStuck(t, w) =>
          /\ RWRecursiveStuck(t, w)'
          /\ pc'[t] = pc[t] /\ loc'[t] = loc[t]
          /\ pc'[w] = pc[w] /\ loc'[w] = loc[w]]_vars

\* The reader and the writer wait for each other, every other task is parked
\* behind them, and no step is enabled.
RWRecursiveDeadlocked ==
    /\ \E t, w \in RWTasks : RWRecursiveStuck(t, w)
    /\ \A u \in RWTasks : pc[u] = "parked"
    /\ ~ENABLED NextRWRecursive

(***************************************************************************)
(* Waiter-count overflow.  The Mutex tasks use the Mutex and two further   *)
(* tasks the WaitGroup; the goroutines that fill a waiter-count field are  *)
(* not tasks of the model: their registrations, each within the field,     *)
(* are summed up in one step.                                              *)
(***************************************************************************)
\* The waiter count of the Mutex state is 2^29 - 1, all bits of the field set
MutexFieldFull(s) == Shr(s, mutexWaiterShift) = -1

\* The waiter count of the Mutex state is 2^28 - 1, the largest positive one
MutexFieldPositiveMax(s) == Shr(s, mutexWaiterShift) = Shr(MaxInt32, mutexWaiterShift)

\* Goroutines outside the model queue on the locked Mutex until its waiter
\* count is the largest positive one, or until all bits of the field are set
MutexCrowd ==
    /\ fatal = ""
    /\ Bit(state, mutexLocked)
    /\ Shr(state, mutexWaiterShift) \in 0..NMutex
    /\ \E field \in {MaxInt32 - (OneWaiter - 1), -OneWaiter} :
          state' = field + (state % OneWaiter)
    /\ UNCHANGED <<pc, loc, sem, fatal, counter, calls, exceptMutex>>

\* Goroutines outside the model call Wait until the waiter count of the
\* WaitGroup is 2^32 - 1
WGCrowd ==
    /\ fatal = ""
    /\ wg.v > 0
    /\ wg.w \in 0..NWG
    /\ wg' = [wg EXCEPT !.w = -1]
    /\ UNCHANGED <<pc, loc, sem, fatal, calls, exceptWG>>

\* Done, while the waiters to release are tasks of the model
DoneUncrowded(t) ==
    /\ wg.w >= 0
    /\ Done(t)

NextOverflow ==
    \/ \E t \in MutexTasks :
        \/ MutexLock(t)
        \/ MutexInner(t)
        \/ CsRead(t)
        \/ CsWrite(t)
        \/ MutexUnlock(t)
    \/ MutexCrowd
    \/ \E t \in WGOverflowTasks :
        \/ WGAdd(t)
        \/ DoneUncrowded(t)
        \/ AddCheck(t)
        \/ AddReset(t)
        \/ AddRelease(t)
        \/ Wait(t)
        \/ WaitLoad(t)
        \/ WaitCAS(t)
        \/ WaitSem(t)
        \/ WaitWake(t)
        \/ WaitCheck(t)
        \/ WaitReturn(t)
    \/ WGCrowd

SpecOverflow == Init /\ [][NextOverflow]_vars

\* Task t registers as a waiter of the Mutex
MutexRegisters(t) ==
    /\ TryLock(t)
    /\ Shr(state', mutexWaiterShift) # Shr(state, mutexWaiterShift)

\* Task t registers as a waiter of the WaitGroup
WGRegisters(t) ==
    /\ WaitCAS(t)
    /\ wg' # wg

\* C26: registering one more waiter than the waiter-count field can hold
\* ends in a fatal error, and the count neither wraps nor carries
WaiterOverflowFatal ==
    [][/\ \A t \in MutexTasks :
            MutexRegisters(t) /\ (MutexFieldFull(state) \/ MutexFieldPositiveMax(state)) =>
                /\ fatal' # ""
                /\ pc'[t] = "fatal"
       /\ \A t \in WGOverflowTasks :
            WGRegisters(t) /\ wg.w = -1 =>
                /\ fatal' # ""
                /\ pc'[t] = "fatal"]_vars

\* C26, amended: the registration is not checked.  On a full field the
\* Mutex waiter count wraps to 0 and from its largest positive value it
\* turns negative, the Mutex still locked or starving; the WaitGroup
\* waiter count wraps to 0 and carries into the counter.  No fatal error is
\* raised and the task goes on to the semaphore.
WaiterOverflowWraps ==
    [][/\ \A t \in MutexTasks :
            MutexRegisters(t) /\ (MutexFieldFull(state) \/ MutexFieldPositiveMax(state)) =>
                /\ fatal' = ""
                /\ pc'[t] = "semacquire"
                /\ MutexFieldFull(state) => Shr(state', mutexWaiterShift) = 0
                /\ MutexFieldPositiveMax(state) => Shr(state', mutexWaiterShift) < 0
                /\ Bit(state', mutexLocked) \/ Bit(state', mutexStarving)
       /\ \A t \in WGOverflowTasks :
            WGRegisters(t) /\ wg.w = -1 =>
                /\ fatal' = ""
                /\ pc'[t] = "waitSem"
                /\ wg'.w = 0
                /\ wg'.v = wg.v + 1]_vars

\* A Mutex waiter is on its way to the semaphore with a waiter count of 0,
\* and a WaitGroup waiter with a waiter count of 0 and a counter one too high
WaiterOverflowWrapped ==
    /\ fatal = ""
    /\ \E t \in MutexTasks :
        /\ pc[t] = "semacquire"
        /\ Shr(state, mutexWaiterShift) = 0
    /\ \E t \in WGOverflowTasks :
        /\ pc[t] = "waitSem"
        /\ wg.w = 0
        /\ wg.v > 1

(***************************************************************************)
(* Pool: the search order of Get                                           *)
(***************************************************************************)
\* The last element of a non-empty chain, and the chain without it
Last(c) == c[Len(c)]
Front(c) == SubSeq(c, 1, Len(c) - 1)

\* Shard pid finds nothing in the caches arr of size `size'
NothingFor(arr, size, pid) ==
    \/ pid >= size
    \/ /\ arr.a[pid].private = NoObj
       /\ \A s \in Shards : arr.a[s].shared = <<>>

\* C27: Get on shard pid takes the private slot of pid if it is populated,
\* else the head of the shared chain of pid, else the tail of the shared
\* chain of another shard; the victim caches are touched only when all of
\* these are empty, and only when they yield nothing is the result New(),
\* or nil when New is not set.
PoolGetOrder ==
    [][PoolGet =>
        LET p == pres'.p
            pid == pres'.pid
            x == pres'.x
            P == Pin(pools[p], allPools, p, pid).P
            Q == pools'[p]
            l == P.local.a[pid]
            others == {s \in Shards \ {pid} : P.local.a[s].shared # <<>>}
            empty == l.private = NoObj /\ l.shared = <<>> /\ others = {}
        IN
        /\ l.private # NoObj =>
              /\ x = l.private
              /\ Q = [P EXCEPT !.local.a[pid].private = NoObj]
        /\ l.private = NoObj /\ l.shared # <<>> =>
              /\ x = Head(l.shared)
              /\ Q = [P EXCEPT !.local.a[pid].shared = Tail(@)]
        /\ l.private = NoObj /\ l.shared = <<>> /\ others # {} =>
              \E s \in others :
                  /\ x = Last(P.local.a[s].shared)
                  /\ Q = [P EXCEPT !.local.a[s].shared = Front(@)]
        /\ ~empty => Q.victim = P.victim /\ Q.victimSize = P.victimSize
        /\ empty =>
              /\ Q.local = P.local
              /\ IF NothingFor(P.victim, P.victimSize, pid)
                 THEN /\ x = IF P.New THEN Fresh ELSE NoObj
                      /\ Q.victim = P.victim
                 ELSE /\ x \in Objs
                      /\ \E s \in Shards :
                            \/ P.victim.a[s].private = x
                            \/ \E i \in 1..Len(P.victim.a[s].shared) :
                                  P.victim.a[s].shared[i] = x]_vars

\* A Get has stolen, from the tail of a chain of two, the object that
\* another shard had put first
PoolGetStoleTail ==
    /\ pres.op = "Get"
    /\ pres.x \in Objs
    /\ \E s \in Shards \ {pres.pid} :
        /\ Len(pools[pres.p].local.a[s].shared) = 1
        /\ pools[pres.p].local.a[s].private # NoObj
        /\ pools[pres.p].local.a[pres.pid] = ZeroLocal

\* The search of the victim caches has something to return to shard pid
VictimChains(P) == {s \in Shards : P.victim.a[s].shared # <<>>}

\* The objects the victim caches of P hold
VictimHolds(P) ==
    {x \in Objs : \E s \in Shards :
        \/ P.victim.a[s].private = x
        \/ \E i \in 1..Len(P.victim.a[s].shared) : P.victim.a[s].shared[i] = x}

\* Get on shard pid of the pinned Pool P finds the primary caches empty
PrimaryEmpty(P, pid) ==
    /\ P.local.a[pid].private = NoObj
    /\ \A s \in Shards : P.local.a[s].shared = <<>>

\* C28: when the primary caches yield nothing, Get on shard pid searches the
\* victim caches in the order of the primary ones, the private slot of pid,
\* the head of the shared chain of pid, the tails of the chains of the other
\* shards, and returns an object whenever the victim caches hold one.
PoolVictimSameOrder ==
    [][PoolGet =>
        LET p == pres'.p
            pid == pres'.pid
            x == pres'.x
            P == Pin(pools[p], allPools, p, pid).P
            v == P.victim.a[pid]
        IN
        PrimaryEmpty(P, pid) =>
            /\ v.private # NoObj => x = v.private
            /\ v.private = NoObj /\ v.shared # <<>> => x = Head(v.shared)
            /\ v.private = NoObj /\ v.shared = <<>> /\ VictimChains(P) # {} =>
                  \E s \in VictimChains(P) : x = Last(P.victim.a[s].shared)
            /\ VictimHolds(P) # {} => x \in VictimHolds(P)]_vars

\* C28, amended: the victim caches are searched in an order of their own,
\* the private slot of pid, then the tail of the shared chain of pid, then
\* the tails of the chains of the other shards in the order pid+1, pid+2,
\* ...; the private slots of the other shards are not searched, so that an
\* object held only there is not returned, and a search that finds nothing
\* marks the victim caches empty.
PoolVictimOrder ==
    [][PoolGet =>
        LET p == pres'.p
            pid == pres'.pid
            x == pres'.x
            P == Pin(pools[p], allPools, p, pid).P
            Q == pools'[p]
            v == P.victim.a[pid]
            next == CHOOSE i \in 0..(NShards - 1) :
                      /\ P.victim.a[(pid + i) % NShards].shared # <<>>
                      /\ \A j \in 0..(i - 1) : P.victim.a[(pid + j) % NShards].shared = <<>>
            s == (pid + next) % NShards
        IN
        PrimaryEmpty(P, pid) /\ pid < P.victimSize =>
            /\ Q.local = P.local
            /\ v.private # NoObj =>
                  /\ x = v.private
                  /\ Q = [P EXCEPT !.victim.a[pid].private = NoObj]
            /\ v.private = NoObj /\ VictimChains(P) # {} =>
                  /\ x = Last(P.victim.a[s].shared)
                  /\ Q = [P EXCEPT !.victim.a[s].shared = Front(@)]
            /\ v.private = NoObj /\ VictimChains(P) = {} =>
                  /\ x = IF P.New THEN Fresh ELSE NoObj
                  /\ Q = [P EXCEPT !.victimSize = 0]]_vars

\* A Get has taken an object from the victim chain of its own shard and
\* left the head of that chain in place
PoolVictimOwnTail ==
    /\ pres.op = "Get"
    /\ pres.x \in Objs
    /\ pres.vslot = "shared"
    /\ PrimaryEmpty(pools[pres.p], pres.pid)
    /\ pools[pres.p].victim.a[pres.pid].shared # <<>>

(***************************************************************************)
(* Map: the promotion of the dirty map by misses                           *)
(***************************************************************************)
\* The step stores the dirty map as the new read map
MapPromoted ==
    /\ ~syncMap.dirty.isnil
    /\ syncMap'.dirty.isnil

\* C29: the misses of Load promote the dirty map only once the miss counter
\* exceeds the number of entries of the dirty map; the dirty map then is the
\* new read map with amended false, there is no dirty map and the counter
\* is 0.
MapPromotionThreshold ==
    [][MapLoad /\ MapPromoted =>
          /\ syncMap.misses + 1 > MapLen(syncMap.dirty)
          /\ syncMap'.read = [m |-> syncMap.dirty, amended |-> FALSE]
          /\ syncMap'.misses = 0]_vars

\* The misses of Load promote the dirty map as soon as the miss counter, the
\* current miss included, reaches the number of entries of the dirty map,
\* and not before.
MapPromotionOnceReached ==
    [][MapLoad =>
       /\ MapPromoted =>
            /\ syncMap.misses + 1 >= MapLen(syncMap.dirty)
            /\ syncMap'.read = [m |-> syncMap.dirty, amended |-> FALSE]
            /\ syncMap'.misses = 0
       /\ syncMap'.misses = syncMap.misses + 1 =>
            /\ syncMap'.misses < MapLen(syncMap.dirty)
            /\ syncMap'.dirty = syncMap.dirty
            /\ syncMap'.read = syncMap.read]_vars

(***************************************************************************)
(* Mutex: the waiter count and the starving bit                            *)
(***************************************************************************)
\* C30: under correct use the waiter count is never negative, and it is
\* positive whenever the starving bit is set; the starving bit is set only
\* together with the registration of a waiter on a locked Mutex, and it is
\* cleared only together with the acquisition by the last waiter.
MutexStateInvariant ==
    /\ [](Shr(state, mutexWaiterShift) >= 0)
    /\ [](Bit(state, mutexStarving) => Shr(state, mutexWaiterShift) > 0)
    /\ [][~Bit(state, mutexStarving) /\ Bit(state', mutexStarving) =>
            /\ Bit(state, mutexLocked)
            /\ Shr(state', mutexWaiterShift) = Shr(state, mutexWaiterShift) + 1]_vars
    /\ [][Bit(state, mutexStarving) /\ ~Bit(state', mutexStarving) =>
            /\ ~Bit(state, mutexLocked)
            /\ Bit(state', mutexLocked)
            /\ Shr(state, mutexWaiterShift) = 1
            /\ Shr(state', mutexWaiterShift) = 0]_vars

\* C30, amended: the waiter count is never negative and is positive
\* whenever the starving bit is set; the starving bit is set only together
\* with the registration of a waiter on a locked Mutex, and it is cleared
\* only by the handoff to a waiter that takes the lock and leaves the count,
\* a waiter that read a waiter count of 1 after waking or that is not
\* starving itself.
MutexStarvingInvariant ==
    /\ [](Shr(state, mutexWaiterShift) >= 0)
    /\ [](Bit(state, mutexStarving) => Shr(state, mutexWaiterShift) > 0)
    /\ [][~Bit(state, mutexStarving) /\ Bit(state', mutexStarving) =>
            /\ Bit(state, mutexLocked)
            /\ Shr(state', mutexWaiterShift) = Shr(state, mutexWaiterShift) + 1]_vars
    /\ [][Bit(state, mutexStarving) /\ ~Bit(state', mutexStarving) =>
            /\ ~Bit(state, mutexLocked)
            /\ Bit(state', mutexLocked)
            /\ Shr(state', mutexWaiterShift) = Shr(state, mutexWaiterShift) - 1
            /\ \E t \in MutexTasks :
                  /\ Handoff(t)
                  /\ Shr(loc[t].old, mutexWaiterShift) = 1 \/ ~loc[t].starving]_vars

\* A waiter that is not starving is about to take the handed-off Mutex and
\* to clear the starving bit while another waiter stays registered
MutexHandoffNotLast ==
    /\ fatal = ""
    /\ Bit(state, mutexStarving)
    /\ Shr(state, mutexWaiterShift) = 2
    /\ \E t \in MutexTasks :
        /\ pc[t] = "handoff"
        /\ ~loc[t].starving

MutexHandoffClearsOnRead ==
    [][\A t \in MutexTasks :
          Handoff(t) =>
              /\ ~Bit(state', mutexStarving) <=>
                    (Shr(loc[t].old, mutexWaiterShift) = 1 \/ ~loc[t].starving)
              /\ Bit(state', mutexLocked)
              /\ Shr(state', mutexWaiterShift) = Shr(state, mutexWaiterShift) - 1
              /\ Shr(state, mutexWaiterShift) >= Shr(loc[t].old, mutexWaiterShift)]_vars

(***************************************************************************)
(* RWMutex: the reader count behind an announced writer                    *)
(***************************************************************************)
\* The readers that hold a read lock
ActiveReaders == {u \in RWTasks : pc[u] = "reading"}

\* The readers that are inside RLock, behind a writer
QueuedReaders ==
    {u \in RWTasks :
        \/ pc[u] = "rlockSem"
        \/ pc[u] \in {"parked", "notified"} /\ loc[u].s = "readerSem"}

\* The readers that have entered RLock since the announced writer announced
\* itself, and have not called RUnlock
EnteredBehindWriter ==
    {u \in RWTasks : AnnouncedWriter # 0 /\ loc[u].blockedBy = AnnouncedWriter}

\* C32: while a writer is announced, readerCount + rwmutexMaxReaders is the
\* number of readers that have entered RLock while the writer was waiting.
RWReaderCountQueuedOnly ==
    readerCount < 0 =>
        readerCount + rwmutexMaxReaders = Cardinality(EnteredBehindWriter)

\* C32, amended: while a writer is announced, readerCount + rwmutexMaxReaders
\* is the number of readers that have called RLock and not yet RUnlock: the
\* readers that held the lock when the writer announced itself and still
\* hold it, and the readers that entered RLock since.
RWReaderCountInvariant ==
    readerCount < 0 =>
        /\ readerCount + rwmutexMaxReaders =
              Cardinality(ActiveReaders) + Cardinality(QueuedReaders)
        /\ EnteredBehindWriter \subseteq ActiveReaders \cup QueuedReaders

\* A writer is announced while one reader still holds the lock it had
\* before and another waits in RLock behind the writer
RWReaderCountMixed ==
    /\ readerCount + rwmutexMaxReaders = 2
    /\ \E u, v \in RWTasks :
        /\ pc[u] = "reading" /\ loc[u].blockedBy = 0
        /\ pc[v] = "parked" /\ loc[v].s = "readerSem"
        /\ loc[v].blockedBy = AnnouncedWriter

(***************************************************************************)
(* RWMutex.Unlock and the readers queued behind the writer                 *)
(***************************************************************************)
\* Unlock issues as many releases of readerSem as there are readers inside
\* RLock behind the writer
RWUnlockReleasesQueued ==
    [][\A t \in RWTasks :
          RWUnlock(t) /\ fatal' = "" =>
              loc'[t].r = Cardinality(QueuedReaders)]_vars

\* No count of readerSem is left over: every count is owed to a reader that
\* is inside RLock and has not yet acquired the semaphore
RWNoPermitLeftOver ==
    sem["readerSem"].count <= Cardinality(QueuedReaders)

\* rw.w is unlocked only after the loop over the queued readers
RWUnlockWAfterReleases ==
    [][\A t \in RWTasks : RWUnlockW(t) => loc[t].r = 0 /\ loc[t].i = 0]_vars

\* A reader that the Unlock of an earlier writer has released is parked on
\* readerSem behind a later writer: no Unlock is in its loop, and a writer
\* is announced.
RWReleasedReaderWaits ==
    \E u \in RWTasks :
        /\ pc[u] = "parked" /\ loc[u].s = "readerSem"
        /\ loc[u].blockedBy = 0
        /\ readerCount < 0
        /\ \A t \in RWTasks : pc[t] # "releaseReaders"

\* C33: Unlock releases exactly the queued readers: it issues as many
\* releases of readerSem as there are readers that entered RLock while
\* readerCount was negative, every such reader returns from RLock without
\* waiting for a later writer, no count of readerSem is left over, and rw.w
\* is unlocked only after those releases.
RWUnlockReleasesExactly ==
    /\ RWUnlockReleasesQueued
    /\ [](~RWReleasedReaderWaits)
    /\ [](RWNoPermitLeftOver)
    /\ RWUnlockWAfterReleases

\* What holds of Unlock: the number of releases, the count of readerSem and
\* the order of the releases and the unlock of rw.w
RWUnlockReleasesCount ==
    /\ RWUnlockReleasesQueued
    /\ [](RWNoPermitLeftOver)
    /\ RWUnlockWAfterReleases

(***************************************************************************)
(* RWMutex: the hand-over from the readers to the writer                   *)
(***************************************************************************)
\* The readers that the writer counted when it announced itself (r of Lock)
\* and that have not called RUnlock: they hold a read lock, or an earlier
\* Unlock has released them and they are still inside RLock
CountedReaders ==
    {u \in RWTasks :
        loc[u].blockedBy = 0 /\ (pc[u] = "reading" \/ u \in QueuedReaders)}

\* The counted readers that hold a read lock
PriorReaders ==
    {u \in RWTasks : pc[u] = "reading" /\ loc[u].blockedBy = 0}

\* The readers inside RUnlock
DepartingReaders ==
    {u \in RWTasks : pc[u] \in {"rUnlockSlow", "rUnlockRelease"}}

\* The writer holds the lock only when every reader it counted at its
\* announcement has called RUnlock
RWWriterAfterCountedReaders ==
    \A w \in RWTasks : pc[w] = "writing" => CountedReaders = {}

\* The writer is parked in Lock only while a reader it counted has not
\* called RUnlock, or a reader is inside RUnlock
RWWriterWaitsOnlyForCountedReaders ==
    \A w \in RWTasks :
        pc[w] = "parked" /\ loc[w].s = "writerSem" =>
            CountedReaders \cup DepartingReaders # {}

\* The same two, for the readers that held a read lock at the announcement
RWWriterAfterPriorReaders ==
    \A w \in RWTasks : pc[w] = "writing" => PriorReaders = {}

RWWriterWaitsOnlyForPriorReaders ==
    \A w \in RWTasks :
        pc[w] = "parked" /\ loc[w].s = "writerSem" =>
            PriorReaders \cup DepartingReaders # {}

\* writerSem is released at most once for one Lock, by the reader whose
\* decrement makes readerWait zero
RWWriterSemOnce ==
    /\ [](sem["writerSem"].count <= 1)
    /\ [][\A t \in RWTasks :
             RUnlockRelease(t) =>
                 /\ readerWait = 0
                 /\ sem["writerSem"].count = 0
                 /\ \A u \in RWTasks \ {t} : pc[u] # "rUnlockRelease"
                 /\ \A u \in RWTasks : ~(pc[u] = "notified" /\ loc[u].s = "writerSem")]_vars

\* A writer whose readers all called RUnlock before its addition to
\* readerWait does not park
RWWriterWindow ==
    [][\A t \in RWTasks :
          WaitReaders(t) /\ readerWait < 0 /\ readerWait' = 0 =>
              pc'[t] = "writing"]_vars

\* C34: a writer in Lock proceeds exactly when all readers that were active
\* when it announced itself have called RUnlock; writerSem is released at
\* most once per Lock, by the last of those readers, also when readers call
\* RUnlock between the writer's subtraction from readerCount and its
\* addition to readerWait.
RWWriterHandOver ==
    /\ [](RWWriterAfterCountedReaders)
    /\ [](RWWriterWaitsOnlyForCountedReaders)
    /\ RWWriterSemOnce
    /\ RWWriterWindow

\* The same with the readers that held a read lock at the announcement
RWWriterHandOverHolding ==
    /\ [](RWWriterAfterPriorReaders)
    /\ [](RWWriterWaitsOnlyForPriorReaders)
    /\ RWWriterSemOnce
    /\ RWWriterWindow

\* What holds of the hand-over: the writer follows the readers that held a
\* read lock, it waits only for counted readers, writerSem is released once,
\* and the window is covered
RWWriterHandOverCount ==
    /\ [](RWWriterAfterPriorReaders)
    /\ [](RWWriterWaitsOnlyForCountedReaders)
    /\ RWWriterSemOnce
    /\ RWWriterWindow

(***************************************************************************)
(* Map: the states of the entries of the read-only map                     *)
(***************************************************************************)
\* The entry of key k in the read-only map, NoEntry if none
ReadEntry(k) == syncMap.read.m.m[k]

\* The entry of key k in the dirty map, NoEntry if none
DirtyEntry(k) == syncMap.dirty.m[k]

\* The entry holds a value
Valid(p) == p # PNil /\ p # PExpunged /\ p # PFree

\* A deleted entry of the read-only map is given a value again only in a
\* step that leaves it listed in the dirty map
MapRecreatedInDirty ==
    [][\A k \in Keys :
          /\ ReadEntry(k) # NoEntry
          /\ ~Valid(syncMap.ep[ReadEntry(k)])
          /\ Valid(syncMap'.ep[ReadEntry(k)])
          => syncMap'.dirty.m[k] = ReadEntry(k)]_vars

\* C35: every key that is in the read-only map but not in the dirty map has
\* its entry in the valid or the nil state, and a deleted key is never
\* re-created directly in the read-only map.
MapEntryStateAsSpecified ==
    /\ [](\A k \in Keys :
            ReadEntry(k) # NoEntry /\ DirtyEntry(k) = NoEntry =>
                syncMap.ep[ReadEntry(k)] # PExpunged)
    /\ MapRecreatedInDirty

\* C35, amended: while the dirty map is nil every entry of the read-only map
\* is valid or nil; while it is not nil, a key of the read-only map is
\* missing from the dirty map exactly when its entry is expunged; and an
\* expunged entry is given a value only in a step that lists it in the
\* dirty map under its key.
MapEntryState ==
    /\ [](\A k \in Keys :
            ReadEntry(k) # NoEntry =>
                IF syncMap.dirty.isnil
                THEN syncMap.ep[ReadEntry(k)] # PExpunged
                ELSE DirtyEntry(k) = NoEntry <=>
                        syncMap.ep[ReadEntry(k)] = PExpunged)
    /\ [][\A k \in Keys :
             /\ ReadEntry(k) # NoEntry
             /\ syncMap.ep[ReadEntry(k)] = PExpunged
             /\ Valid(syncMap'.ep[ReadEntry(k)])
             => /\ syncMap'.dirty.m[k] = ReadEntry(k)
                /\ syncMap'.read.m.m[k] = ReadEntry(k)]_vars

\* The dirty map has been created from a read-only map with a deleted key:
\* the key is in the read-only map, its entry is expunged, and the dirty map
\* holds another key but not this one
MapExpungedMissing ==
    /\ ~syncMap.dirty.isnil
    /\ \E k \in Keys :
        /\ ReadEntry(k) # NoEntry
        /\ syncMap.ep[ReadEntry(k)] = PExpunged
        /\ DirtyEntry(k) = NoEntry
        /\ \E j \in Keys : DirtyEntry(j) # NoEntry

(***************************************************************************)
(* Map: LoadOrStore under concurrency                                      *)
(***************************************************************************)
\* Task t takes the step of LoadOrStore that decides its result
LoadOrStoreDecides(t) ==
    /\ pc[t] \in {"losTry", "losCAS", "losLocked", "losFinish"}
    /\ pc'[t] = "losDone"

\* C36: LoadOrStore is atomic per key.  The step that decides the result of
\* a LoadOrStore(k, v) finds k absent, stores v and answers v, false, or it
\* finds the value k has, answers it with true and changes no entry: so of
\* the calls that overlap on an absent key one stores, and the others
\* answer its value.
MapLoadOrStoreAtomic ==
    [][\A t \in MapTasks :
          LoadOrStoreDecides(t) =>
              LET k == loc[t].key IN
              IF loc'[t].loaded
              THEN /\ ref[k] # 0
                   /\ loc'[t].actual = ref[k]
                   /\ ref' = ref
                   /\ \A e \in Entries :
                         \/ syncMap'.ep[e] = syncMap.ep[e]
                         \/ (syncMap.ep[e] = PExpunged /\ syncMap'.ep[e] = PNil)
              ELSE /\ ref[k] = 0
                   /\ loc'[t].actual = loc[t].value
                   /\ ref' = [ref EXCEPT ![k] = loc[t].value]]_vars

\* ref is the map: while no task holds m.mu, a Load of k would find ref[k]
MapRefIsMap ==
    mu = 0 =>
        \A k \in Keys :
            LET r == Load(syncMap, k) IN [value |-> r.value, ok |-> r.ok] = RefLoad(k)

\* Two calls of LoadOrStore overlapped on a key of the read-only map whose
\* entry was nil: both went through tryLoadOrStore on that entry, one stored
\* its value and the other answered that value, not its own
MapLoadOrStoreRace ==
    \E k \in Keys, t, u \in MapWriters :
        /\ pc[t] = "losDone" /\ loc[t].key = k
        /\ pc[u] = "losDone" /\ loc[u].key = k
        /\ loc[t].e # NoEntry /\ loc[u].e = loc[t].e
        /\ syncMap.dirty.isnil
        /\ ~loc[t].loaded /\ loc[u].loaded
        /\ loc[u].value # loc[t].value
        /\ loc[u].actual = loc[t].value

(***************************************************************************)
(* Pool: the victim cache marked as empty                                  *)
(***************************************************************************)
\* The step is a Get on Pool p that stores 0 to p.victimSize
MarksVictimEmpty(p) ==
    /\ pres'.op = "Get" /\ pres'.p = p
    /\ pools[p].victimSize > 0
    /\ pools'[p].victimSize = 0

\* C37: getSlow sets victimSize to 0 only when the victim caches hold no
\* object at all: after a Get that marks the victim cache as empty, no
\* private slot and no shared chain of a victim cache holds an object that
\* later Gets skip.
PoolVictimMarkedEmpty ==
    [][\A p \in Pools :
          MarksVictimEmpty(p) => VictimHolds(pools'[p]) = {}]_vars

\* C37, amended: getSlow sets victimSize to 0 when the victim private slot of
\* its own shard and every victim shared chain are empty; the victim private
\* slots of the other shards are not looked at.
PoolVictimMarkedChainsEmpty ==
    [][\A p \in Pools :
          MarksVictimEmpty(p) =>
              /\ VictimChains(pools'[p]) = {}
              /\ pools'[p].victim.a[pres'.pid].private = NoObj
              /\ pres'.x \notin Objs
              /\ pools'[p].victim = pools[p].victim]_vars

\* A Get has marked the victim cache as empty while the victim private slot
\* of another shard holds an object
PoolVictimMarkedWithPrivate ==
    /\ pres.op = "Get"
    /\ pres.x \notin Objs
    /\ pools[pres.p].victimSize = 0
    /\ \E s \in Shards \ {pres.pid} : pools[pres.p].victim.a[s].private # NoObj

(***************************************************************************)
(* Map: the dirty map holds what the read-only map holds                   *)
(***************************************************************************)
\* C38: whenever m.mu is not held, read.amended is true iff m.dirty is not
\* nil; and if m.dirty is not nil, every entry of the read-only map that is
\* not expunged is in m.dirty under the same key, as the same entry, while
\* no expunged entry is in m.dirty.
MapDirtySuperset ==
    mu = 0 =>
        /\ syncMap.read.amended <=> ~syncMap.dirty.isnil
        /\ ~syncMap.dirty.isnil =>
              \A k \in Keys :
                  /\ ReadEntry(k) # NoEntry /\ syncMap.ep[ReadEntry(k)] # PExpunged
                        => DirtyEntry(k) = ReadEntry(k)
                  /\ DirtyEntry(k) # NoEntry => syncMap.ep[DirtyEntry(k)] # PExpunged

\* m.mu is free and m.dirty is not nil: it holds a key of the read-only map
\* under the same entry and a key the read-only map lacks, while a task is
\* inside a Store, a LoadOrStore or a Delete
MapDirtyAmended ==
    /\ mu = 0
    /\ ~syncMap.dirty.isnil
    /\ \E k, j \in Keys :
        /\ ReadEntry(k) # NoEntry /\ DirtyEntry(k) = ReadEntry(k)
        /\ ReadEntry(j) = NoEntry /\ DirtyEntry(j) # NoEntry
    /\ \E t \in MapWriters : pc[t] \in WritePcs

(***************************************************************************)
(* Map: a Store that has returned is not lost                              *)
(***************************************************************************)
\* What the Load of task t, at its last step, returns
LoadResult(t) ==
    IF loc[t].e = NoEntry
    THEN [value |-> 0, ok |-> FALSE]
    ELSE EntryLoad(syncMap.ep[loc[t].e])

\* C39: no completed Store is lost.  A Load(k) that no Store, LoadOrStore or
\* Delete of k overlaps returns the value of the last write of k that
\* returned, and whenever m.mu is free a Load of k would find that value:
\* whatever tryStore, the loop of dirtyLocked and the promotions of other
\* tasks did meanwhile.
MapNoLostStore ==
    /\ [](MapRefIsMap)
    /\ [][\A t \in MapTasks :
             LoadEntry(t) /\ loc[t].expect # Unknown =>
                 LoadResult(t) = [value |-> loc[t].expect, ok |-> loc[t].expect # 0]]_vars

\* A Load of a key of the read-only map is about to return the value stored
\* last, while another task is inside the loop of dirtyLocked or has just
\* left it
MapLoadDuringDirtyLocked ==
    \E t, u \in MapWriters :
        /\ pc[t] = "loadEntry"
        /\ loc[t].expect \in Vals
        /\ loc[t].e # NoEntry
        /\ LoadResult(t).value = loc[t].expect
        /\ pc[u] \in {"dirtyLoop", "storeFinish"}
        /\ loc[u].visited # {}

(***************************************************************************)
(* Mutex: the consistency checks of lockSlow                               *)
(***************************************************************************)
\* A task that was woken builds its new state from a state with the woken
\* bit set
MutexAwokeFindsWoken ==
    \A t \in MutexTasks :
        pc[t] = "loop" /\ loc[t].awoke =>
            Bit(NewState(loc[t].old, loc[t].starving), mutexWoken)

\* A waiter woken while the starving bit is set finds the locked and the
\* woken bit clear and at least one waiter
MutexHandoffFindsConsistent ==
    \A t \in MutexTasks :
        pc[t] = "afterWake" /\ Bit(state, mutexStarving) =>
            /\ ~Bit(state, mutexLocked)
            /\ ~Bit(state, mutexWoken)
            /\ Shr(state, mutexWaiterShift) >= 1

\* C40: under correct use the consistency checks of lockSlow never fire: a
\* task with awoke = true finds the woken bit set when it builds its new
\* state, a waiter woken while the starving bit is set finds the locked and
\* woken bits clear and the waiter count at least 1, and neither throw of
\* "sync: inconsistent mutex state" is reached.
MutexChecksNeverFire ==
    /\ MutexAwokeFindsWoken
    /\ MutexHandoffFindsConsistent
    /\ fatal # "sync: inconsistent mutex state"

\* A waiter woken in starving mode is at its check while another waiter is
\* registered, after a waiter woken in normal mode has passed its own
MutexAtHandoffCheck ==
    \E t \in MutexTasks :
        /\ pc[t] = "afterWake"
        /\ loc[t].awoke
        /\ Bit(state, mutexStarving)
        /\ Shr(state, mutexWaiterShift) = 2

====
